---- MODULE Spec2Model ----
(***************************************************************************)
(* Model of the padelwatcher backend core: the availability reconciler,    *)
(* the freshness cache, the notification ledger, the background search     *)
(* task and the periodic re-check of saved searches.                       *)
(*                                                                         *)
(* Times of day are counted in slots of a day of DayLen units; an          *)
(* availability's end time is (start + duration) modulo the day, as        *)
(* datetime/time arithmetic produces it.                                   *)
(***************************************************************************)
EXTENDS Integers, Sequences, FiniteSets, TLC

\* ------------------------------------------------------------------ bounds
MaxRaw == 2            \* longest raw slot list one provider fetch returns
MaxSlotId == 3         \* availabilities ids handed out in one run
MaxCourtId == 3        \* courts ids handed out in one run
DayLen == 6            \* time-of-day units in one day
MaxCancels == 2        \* cancel requests sent for one task
Now == 20              \* the clock, in minutes, while a task runs
MaxAgeMinutes == 15    \* max_age_minutes of the cache check

Resources == {1, 2}    \* provider resource ids (courts of the provider)
Dates == {1}
StartTimes == {1, 2}
Durations == {1, 2}
Prices == {"25 EUR", "27 EUR"}
NoRes == 0             \* a court row without resource_id (NULL)
UnknownRes == Cardinality(Resources) + 1   \* a resource without a court row

VARIABLES
    locations,    \* table locations: set of ids
    courts,       \* table courts: set of rows
    slots,        \* table availabilities: set of rows
    nextSlotId,   \* next primary key of availabilities
    nextCourtId,  \* next primary key of courts
    sess,         \* per database session: the reconcile it has flushed, if any
    rlog,         \* observer: what the last two sequential reconciles did
    mlog,         \* observer: what the metadata refresh that just ran merged
    cache,        \* table search_requests, by search hash
    task,         \* the SearchTask row
    params,       \* search_params of the task
    w,            \* the background thread run_search_task: position and locals
    sessionFailed,\* availability_service.session holds a failed transaction
    creq,         \* the cancel request in flight and the last answer
    plog,         \* observer: every progress value written to the task
    olog,         \* observer: cancels accepted, fetches started after one
    orders,       \* table search_orders, by id
    notifs,       \* table search_order_notifications
    wlog,         \* observer: pairs returned as candidates, pairs handed over
    upsert,       \* two create_search_request_record calls and their sessions
    runs,         \* fetch_and_search_availability runs between query and record
    tick,         \* check_active_search_orders: the orders selected, its log
    probe         \* a call of a query or service method and what it returned

storeVars == <<locations, courts, slots, nextSlotId, nextCourtId, sess>>
obsVars == <<rlog, mlog>>
taskVars == <<cache, task, params, w, sessionFailed, creq, plog, olog>>
watchVars == <<orders, notifs, wlog>>
otherVars == <<upsert, runs, tick, probe>>
vars == <<locations, courts, slots, nextSlotId, nextCourtId, sess, rlog, mlog,
          cache, task, params, w, sessionFailed, creq, plog, olog,
          orders, notifs, wlog, upsert, runs, tick, probe>>

\* ------------------------------------------------------------- the schema
\* courts row
Court(id, name, loc, res, indoor, double) ==
    [id |-> id, name |-> name, location_id |-> loc, resource_id |-> res,
     indoor |-> indoor, double |-> double]

\* availabilities row; a transient Availability object has id = 0
Availability(id, court, date, start, end, dur, price, avail) ==
    [id |-> id, court_id |-> court, date |-> date, start_time |-> start,
     end_time |-> end, duration |-> dur, price |-> price, available |-> avail]

\* UniqueConstraint("court_id","date","start_time","duration")
NaturalKey(a) == <<a.court_id, a.date, a.start_time, a.duration>>

uq_availability_slot_off(rows) == TRUE
uq_availability_slot(rows) ==
    \A a, b \in rows : NaturalKey(a) = NaturalKey(b) => a = b

\* ------------------------------------------------------ provider parsing
EndTime(start, dur) == (start + dur) % DayLen

\* court_service.get_court_by_resource_and_location
get_court_by_resource_and_location(cs, res, loc) ==
    {c \in cs : c.resource_id = res /\ c.location_id = loc}

\* one raw provider slot: [resource, date, start, duration, price]
RawItems ==
    [resource : Resources, date : Dates, start : StartTimes,
     duration : Durations, price : Prices]

\* PlaytomicProvider._parse_availability: "error" when a resource has no
\* court row (court_obj is None and court_obj.id raises)
RECURSIVE parse_availability(_, _, _, _, _)
parse_availability(cs, loc, raw, i, acc) ==
    IF i > Len(raw) THEN [ok |-> TRUE, avs |-> acc]
    ELSE LET found == get_court_by_resource_and_location(cs, raw[i].resource, loc)
         IN IF found = {} THEN [ok |-> FALSE, avs |-> <<>>]
            ELSE LET c == CHOOSE x \in found : TRUE
                 IN parse_availability(cs, loc, raw, i + 1,
                        Append(acc,
                               Availability(0, c.id, raw[i].date, raw[i].start,
                                            EndTime(raw[i].start, raw[i].duration),
                                            raw[i].duration, raw[i].price, TRUE)))

\* ------------------------------------------------------------- reconciler
\* the lookup of bulk_add_availabilities: court_id, date, start_time, end_time
SameSlot_any(e, a) == TRUE
SameSlot(e, a) ==
    /\ e.court_id = a.court_id
    /\ e.date = a.date
    /\ e.start_time = a.start_time
    /\ e.end_time = a.end_time

\* AvailabilityService.bulk_add_availabilities, the loop: `rows` is what the
\* session sees (committed rows and its own flushed ones); pending rows carry
\* the ids nid, nid+1, ...
RECURSIVE bulk_add_loop(_, _, _, _, _, _)
bulk_add_loop(rows, nid, avs, i, added, updated) ==
    IF i > Len(avs)
    THEN [rows |-> rows, nid |-> nid,
          stats |-> [added |-> added, updated |-> updated, total |-> Len(avs)]]
    ELSE LET a == avs[i]
             ex == {e \in rows : SameSlot(e, a)}
         IN IF ex # {}
            THEN LET e == CHOOSE x \in ex : \A y \in ex : x.id <= y.id
                     e2 == [e EXCEPT !.price = a.price,
                                     !.available = a.available,
                                     !.duration = a.duration]
                 IN bulk_add_loop((rows \ {e}) \cup {e2}, nid, avs, i + 1,
                                  added, updated + 1)
            ELSE bulk_add_loop(rows \cup {[a EXCEPT !.id = nid]}, nid + 1, avs,
                               i + 1, added + 1, updated)

bulk_add_availabilities_alladded(rows, nid, avs) ==
    [bulk_add_loop(rows, nid, avs, 1, 0, 0) EXCEPT
        !.stats = [added |-> Len(avs), updated |-> 0, total |-> Len(avs)]]
bulk_add_availabilities(rows, nid, avs) == bulk_add_loop(rows, nid, avs, 1, 0, 0)


\* ----------------------------------------------------------- task service
Locations == {1, 2}
Terminal == {"completed", "failed", "cancelled"}
None == -1             \* Python None where a number is expected
NoResults == [built |-> FALSE, slots |-> {}, locations |-> <<>>]

\* the users of the application and the task ids a client may send; the
\* only task ever created has the first id
Users == {"u1", "u2"}
TaskIds == {1, 2}

\* TaskService.create_task
create_task(user_id, p) ==
    [exists |-> TRUE, task_id |-> 1, user_id |-> user_id,
     status |-> "pending", progress |-> 0,
     total_locations |-> Len(p.location_ids), processed_locations |-> 0,
     results |-> NoResults, error_message |-> FALSE,
     started_at |-> FALSE, completed_at |-> FALSE]

NoTask ==
    [exists |-> FALSE, task_id |-> 0, user_id |-> "none",
     status |-> "none", progress |-> 0,
     total_locations |-> 0, processed_locations |-> 0,
     results |-> NoResults, error_message |-> FALSE,
     started_at |-> FALSE, completed_at |-> FALSE]

Clamp(p) == IF p < 0 THEN 0 ELSE IF p > 100 THEN 100 ELSE p

\* TaskService.update_task_progress
update_task_progress_nocheck(t, progress, processed, total) ==
    IF ~ t.exists THEN t
    ELSE [t EXCEPT !.progress = Clamp(progress),
                   !.processed_locations = processed,
                   !.total_locations = total]
update_task_progress(t, progress, processed, total) ==
    IF ~ t.exists THEN t
    ELSE [t EXCEPT !.progress = Clamp(progress),
                   !.processed_locations = IF processed # None THEN processed ELSE @,
                   !.total_locations = IF total # None THEN total ELSE @]

\* TaskService.start_task
start_task(t) ==
    IF ~ t.exists THEN t
    ELSE [t EXCEPT !.status = "running", !.started_at = TRUE]

\* TaskService.complete_task
complete_task(t, results) ==
    IF ~ t.exists THEN t
    ELSE [t EXCEPT !.status = "completed", !.progress = 100,
                   !.results = results, !.completed_at = TRUE]

\* TaskService.fail_task
fail_task_skip(t) == t
fail_task(t) ==
    IF ~ t.exists THEN t
    ELSE [t EXCEPT !.status = "failed", !.error_message = TRUE,
                   !.completed_at = TRUE]

\* TaskService.cancel_task
cancel_task(t) ==
    IF ~ t.exists THEN t
    ELSE IF t.status \in {"pending", "running"}
         THEN [t EXCEPT !.status = "cancelled", !.completed_at = TRUE]
         ELSE t

\* TaskService.get_task on the table of tasks: the row of the id, or the
\* absent row for None
get_task_any(t, task_id) == t
get_task(t, task_id) ==
    IF t.exists /\ t.task_id = task_id THEN t ELSE NoTask

\* TaskService.get_task_for_user
get_task_for_user_any(t, task_id, user_id) == get_task(t, task_id)
get_task_for_user(t, task_id, user_id) ==
    IF t.exists /\ t.task_id = task_id /\ t.user_id = user_id THEN t ELSE NoTask

\* search_requests row; q is the search it records
SearchRequest(id, hash, q, at, live, found) ==
    [id |-> id, search_hash |-> hash, date |-> q.date,
     start_time |-> q.start_time, duration_minutes |-> q.duration_minutes,
     court_type |-> q.court_type, location_id |-> q.location_id,
     live_search |-> live, performed_at |-> at, slots_found |-> found]

\* SearchService.generate_search_hash: of a search only the date and the
\* location id are hashed; the hash is taken to be free of collisions
generate_search_hash_full(q) ==
    <<q.date, q.location_id, q.start_time, q.duration_minutes, q.court_type>>
generate_search_hash(q) == <<q.date, q.location_id>>

\* the search of location loc that a task with parameters p records
SearchOf(p, loc) ==
    [date |-> p.date, location_id |-> loc, start_time |-> p.start_time,
     duration_minutes |-> p.duration_minutes, court_type |-> p.court_type]

\* search_params before a task is submitted
NoParams ==
    [location_ids |-> <<>>, force_live |-> FALSE, court_type |-> "all",
     court_config |-> "all", date |-> 1, start_time |-> 1, end_time |-> 1,
     duration_minutes |-> 1]

IdleWorker == [pc |-> "none", live |-> <<>>, idx |-> 1, processed |-> 0,
               fetched |-> {}, raised |-> {}]
NoCancel == [pc |-> "idle", n |-> 0, resp |-> "none",
             statusAtCheck |-> "none", statusAfter |-> "none"]

NoObserved == [cancelled |-> FALSE, lateFetch |-> {}, seen |-> {}]

\* no task has been submitted
NoTaskRunning ==
    /\ task = NoTask
    /\ params = NoParams
    /\ w = IdleWorker
    /\ sessionFailed = FALSE
    /\ creq = NoCancel
    /\ plog = <<>>
    /\ olog = NoObserved

\* no task has been submitted and nothing is cached
TaskIdle ==
    /\ cache = {}
    /\ NoTaskRunning

NoWatch == [cand |-> {}, candAgain |-> {}, skipped |-> {},
            handed |-> {}, handedAgain |-> {}]

\* no saved search exists
WatchIdle ==
    /\ orders = {}
    /\ notifs = {}
    /\ wlog = NoWatch

\* no cache write and no saved-search run is in flight
NoUpsert == [shared |-> FALSE, pending |-> {}, call |-> <<>>]
NoRuns == {}
NoTick == [pc |-> "idle", n |-> 0, selected |-> {}, queue |-> <<>>, log |-> {}]
NoProbe == [op |-> "none"]
RaceIdle ==
    /\ upsert = NoUpsert
    /\ runs = NoRuns
    /\ tick = NoTick
    /\ probe = NoProbe

\* ------------------------------------------------- sequential reconciling
\* the raw lists one sequential reconcile is given: one slot per court, at
\* either price
ReconItems == {it \in RawItems : it.start = 1 /\ it.duration = 1}
RawLists == UNION {[1..n -> ReconItems] : n \in 0..MaxRaw}

KeysOf(avs) == {NaturalKey(avs[i]) : i \in 1..Len(avs)}
AllNew(rows, avs) ==
    /\ Cardinality(KeysOf(avs)) = Len(avs)
    /\ \A e \in rows : NaturalKey(e) \notin KeysOf(avs)

NoStats == [added |-> 0, updated |-> 0, total |-> 0]
NoMerge == [moved |-> 0, dropped |-> 0, merged |-> {}]

InitCourts ==
    {Court(r, <<"name", r>>, 1, r, FALSE, FALSE) : r \in Resources}

Sessions == {"task", "tick"}
IdleSession == [pc |-> "idle", ins |-> {}, upd |-> {}, err |-> FALSE]

InitRecon ==
    /\ courts = InitCourts
    /\ slots = {}
    /\ nextSlotId = 1
    /\ nextCourtId = 3
    /\ sess = [s \in Sessions |-> IdleSession]
    /\ locations = Locations
    /\ rlog = [raw |-> <<>>, stats |-> NoStats, allNew |-> FALSE, n |-> 0,
               repeat |-> FALSE, unchanged |-> FALSE,
               prevStats |-> NoStats, prevAllNew |-> FALSE]
    /\ mlog = NoMerge
    /\ TaskIdle
    /\ WatchIdle
    /\ RaceIdle

\* BaseCourtProvider.fetch_and_store_availability for location 1, run alone:
\* fetch, parse, bulk_add_availabilities, commit
Reconcile(raw) ==
    LET p == parse_availability(courts, 1, raw, 1, <<>>)
        r == bulk_add_availabilities(slots, nextSlotId, p.avs)
    IN /\ p.ok
       /\ uq_availability_slot(r.rows)
       /\ slots' = r.rows
       /\ nextSlotId' = r.nid
       /\ rlog' = [raw |-> raw, stats |-> r.stats,
                   allNew |-> AllNew(slots, p.avs), n |-> Len(raw),
                   repeat |-> (rlog.n > 0 /\ raw = rlog.raw),
                   unchanged |-> (r.rows = slots),
                   prevStats |-> rlog.stats, prevAllNew |-> rlog.allNew]
       /\ UNCHANGED <<locations, otherVars, courts, nextCourtId, sess, mlog, taskVars, watchVars>>

NextRecon == \E raw \in RawLists : Reconcile(raw)

SpecRecon == InitRecon /\ [][NextRecon]_vars

\* C9: reconciling the same raw list twice in a row adds nothing on the second
\* pass and leaves the persisted slots as the first pass left them; a first
\* pass over n new slots reports added = n, updated = 0 and the identical
\* second pass reports added = 0, updated = n.
C9_Idempotent ==
    /\ rlog.repeat =>
          /\ rlog.stats.added = 0
          /\ rlog.unchanged
    /\ (rlog.allNew /\ rlog.n > 0) =>
          /\ rlog.stats.added = rlog.n
          /\ rlog.stats.updated = 0
    /\ (rlog.repeat /\ rlog.prevAllNew) =>
          /\ rlog.stats.added = 0
          /\ rlog.stats.updated = rlog.n

C9_Witness ==
    /\ rlog.repeat
    /\ rlog.prevAllNew
    /\ rlog.n = MaxRaw
    /\ rlog.prevStats.added = MaxRaw
    /\ rlog.stats.updated = MaxRaw
\* ------------------------------------------- the store under two sessions
\* Two database sessions reconcile concurrently (a search task through the
\* module-level availability_service, the re-check through its own
\* AvailabilityService()): each looks its rows up, flushes, and commits
\* later; the unique constraint decides at commit.

\* court names: the provider's resource id (a UUID) or the club's name for it
UuidName(r) == <<"uuid", r>>
ProperName(r) == <<"name", r>>
IsUuidName(n) == n[1] = "uuid"

\* PadelMateService.parse_availability and the re-parse of its timeslot
\* string in store_internal_availabilities: duration is end - start
LegacyDuration(start, end) == (end - start + DayLen) % DayLen

\* AvailabilityService.store_internal_availabilities
RECURSIVE store_internal_loop(_, _, _, _, _, _)
store_internal_loop(cs, rows, ncid, nid, items, i) ==
    IF i > Len(items) THEN [courts |-> cs, rows |-> rows, ncid |-> ncid, nid |-> nid]
    ELSE LET it == items[i]
             found == {c \in cs : c.location_id = 1 /\ c.name = UuidName(it.resource)}
             cs2 == IF found = {}
                    THEN cs \cup {Court(ncid, UuidName(it.resource), 1, NoRes, FALSE, FALSE)}
                    ELSE cs
             ncid2 == IF found = {} THEN ncid + 1 ELSE ncid
             court == IF found = {} THEN ncid ELSE (CHOOSE c \in found : TRUE).id
             end == EndTime(it.start, it.duration)
             a == Availability(0, court, it.date, it.start, end,
                               LegacyDuration(it.start, end), it.price, TRUE)
             ex == {e \in rows : SameSlot(e, a)}
         IN IF ex # {}
            THEN LET e == CHOOSE x \in ex : \A y \in ex : x.id <= y.id
                 IN store_internal_loop(cs2,
                        (rows \ {e}) \cup {[e EXCEPT !.price = a.price,
                                                     !.available = a.available]},
                        ncid2, nid, items, i + 1)
            ELSE store_internal_loop(cs2, rows \cup {[a EXCEPT !.id = nid]},
                                     ncid2, nid + 1, items, i + 1)

store_internal_availabilities(cs, rows, ncid, nid, items) ==
    store_internal_loop(cs, rows, ncid, nid, items, 1)

\* the club's features of a resource: 'indoor' / 'double' in its features
ClubIndoor(r) == r = 1
ClubDouble(r) == r = 2

\* PadelMateService.add_location_by_slug, first loop: update the court found
\* by name, else rename the court found by resource id, else create it
RefreshCourts(cs, ncid, listed) ==
    LET indoor(r) == ClubIndoor(r)
        double(r) == ClubDouble(r)
        byName(r) == {c \in cs : c.location_id = 1 /\ c.name = ProperName(r)}
        byUuid(r) == {c \in cs : c.location_id = 1 /\ c.name = UuidName(r)}
        creates == {r \in listed : byName(r) = {} /\ byUuid(r) = {}}
        rank(r) == Cardinality({q \in creates : q < r})
        touch(c) ==
            IF \E r \in listed : c \in byName(r)
            THEN [c EXCEPT !.indoor = indoor(c.name[2]), !.double = double(c.name[2])]
            ELSE IF \E r \in listed : byName(r) = {} /\ c \in byUuid(r)
                 THEN [c EXCEPT !.name = ProperName(c.name[2]),
                                !.indoor = indoor(c.name[2]),
                                !.double = double(c.name[2])]
                 ELSE c
    IN [courts |-> {touch(c) : c \in cs}
                   \cup {Court(ncid + rank(r), ProperName(r), 1, NoRes, indoor(r), double(r))
                         : r \in creates},
        ncid |-> ncid + Cardinality(creates)]

\* the duplicate test of the merge: court, date, start_time, end_time
MergeTarget(cs, c, listed) ==
    {q \in cs : /\ c.name[2] \in listed
                /\ q.location_id = 1
                /\ q.name = ProperName(c.name[2])
                /\ q.id # c.id}

\* PadelMateService.add_location_by_slug, the clean-up of UUID-named courts
MergePlaceholders_cascade(cs, rows, listed) ==
    LET gone == {c \in cs : /\ c.location_id = 1
                            /\ IsUuidName(c.name)
                            /\ MergeTarget(cs, c, listed) # {}}
    IN [courts |-> cs \ gone,
        rows |-> {a \in rows : ~ \E c \in gone : c.id = a.court_id}]
MergePlaceholders(cs, rows, listed) ==
    LET placeholders == {c \in cs : c.location_id = 1 /\ IsUuidName(c.name)}
        target(c) == CHOOSE q \in MergeTarget(cs, c, listed) : TRUE
        merged == {c \in placeholders : MergeTarget(cs, c, listed) # {}}
        renamed == {c \in placeholders :
                        c.name[2] \in listed /\ MergeTarget(cs, c, listed) = {}}
        dropped == {c \in placeholders :
                        /\ c.name[2] \notin listed
                        /\ ~ \E a \in rows : a.court_id = c.id}
        dup(a, q) == \E e \in rows : SameSlot(e, [a EXCEPT !.court_id = q.id])
        kept == {a \in rows :
                    \A c \in merged : a.court_id = c.id => ~ dup(a, target(c))}
        moved(a) ==
            IF \E c \in merged : c.id = a.court_id
            THEN LET c == CHOOSE x \in merged : x.id = a.court_id
                 IN [a EXCEPT !.court_id = target(c).id]
            ELSE a
        rename(c) == IF c \in renamed
                     THEN [c EXCEPT !.name = ProperName(c.name[2])] ELSE c
    IN [courts |-> {rename(c) : c \in cs \ (merged \cup dropped)},
        rows |-> {moved(a) : a \in kept}]

\* PadelMateService.add_location_by_slug, session.delete(court) of the
\* clean-up: Court.notifications has cascade "all, delete-orphan", so the
\* notification records of a deleted court are deleted with it
MergeNotifications(ns, cs, rows, listed) ==
    LET placeholders == {c \in cs : c.location_id = 1 /\ IsUuidName(c.name)}
        merged == {c \in placeholders : MergeTarget(cs, c, listed) # {}}
        dropped == {c \in placeholders :
                        /\ c.name[2] \notin listed
                        /\ ~ \E a \in rows : a.court_id = c.id}
    IN {n \in ns : ~ \E c \in merged \cup dropped : c.id = n.court_id}

\* raw lists of the two reconcilers in the concurrent store
BulkItems == {it \in RawItems : it.resource = 1 /\ it.start = 1 /\ it.duration = 1}
BulkLists == UNION {[1..n -> BulkItems] : n \in 1..MaxRaw}
LegacyItems ==
    {it \in RawItems : it.start = 1 /\ it.duration = 1 /\ it.price = "25 EUR"}
LegacyLists == [1..1 -> LegacyItems]

InitStore ==
    /\ courts = {Court(1, ProperName(1), 1, 1, FALSE, FALSE)}
    /\ slots = {}
    /\ nextSlotId = 1
    /\ nextCourtId = 2
    /\ sess = [s \in Sessions |-> IdleSession]
    /\ locations = Locations
    /\ rlog = [raw |-> <<>>, stats |-> NoStats, allNew |-> FALSE, n |-> 0,
               repeat |-> FALSE, unchanged |-> FALSE,
               prevStats |-> NoStats, prevAllNew |-> FALSE]
    /\ mlog = NoMerge
    /\ TaskIdle
    /\ WatchIdle
    /\ RaceIdle

\* fetch_and_store_availability up to the flush: the session has looked every
\* slot up against the committed rows and holds its inserts and updates
FlushBulkAdd(s, raw) ==
    LET p == parse_availability(courts, 1, raw, 1, <<>>)
        r == bulk_add_availabilities(slots, nextSlotId, p.avs)
    IN /\ sess[s].pc = "idle"
       /\ p.ok
       /\ r.nid <= MaxSlotId + 1
       /\ sess' = [sess EXCEPT ![s] =
                      [pc |-> "flushed",
                       ins |-> {a \in r.rows : a.id >= nextSlotId},
                       upd |-> {a \in r.rows : a.id < nextSlotId /\ a \notin slots},
                       err |-> FALSE]]
       /\ nextSlotId' = r.nid
       /\ mlog' = NoMerge
       /\ UNCHANGED <<locations, otherVars, courts, slots, nextCourtId, rlog, taskVars, watchVars>>

\* what a commit of the session's rows makes of the table
Committed(rows, s) ==
    {a \in rows : ~ \E u \in sess[s].upd : u.id = a.id}
        \cup {u \in sess[s].upd : \E a \in rows : a.id = u.id}
        \cup sess[s].ins

\* session.commit(): the rows become visible
CommitBulkAdd(s) ==
    /\ sess[s].pc = "flushed"
    /\ uq_availability_slot(Committed(slots, s))
    /\ slots' = Committed(slots, s)
    /\ sess' = [sess EXCEPT ![s] = IdleSession]
    /\ mlog' = NoMerge
    /\ UNCHANGED <<locations, otherVars, courts, nextSlotId, nextCourtId, rlog, taskVars, watchVars>>

\* session.commit() raises IntegrityError: nothing of the session is kept,
\* and bulk_add_availabilities passes the error on to its caller
CommitConflict(s) ==
    /\ sess[s].pc = "flushed"
    /\ ~ uq_availability_slot(Committed(slots, s))
    /\ sess' = [sess EXCEPT ![s] = [IdleSession EXCEPT !.err = TRUE]]
    /\ mlog' = NoMerge
    /\ UNCHANGED <<locations, otherVars, courts, slots, nextSlotId, nextCourtId, rlog, taskVars, watchVars>>

\* the legacy reconciler, which attaches slots to UUID-named courts
StoreInternal(items) ==
    LET r == store_internal_availabilities(courts, slots, nextCourtId, nextSlotId, items)
    IN /\ r.nid <= MaxSlotId + 1
       /\ r.ncid <= MaxCourtId + 1
       /\ uq_availability_slot(r.rows)
       /\ courts' = r.courts
       /\ slots' = r.rows
       /\ nextCourtId' = r.ncid
       /\ nextSlotId' = r.nid
       /\ mlog' = NoMerge
       /\ UNCHANGED <<locations, otherVars, sess, rlog, taskVars, watchVars>>

\* a resource with both a UUID-named placeholder court and a named court
HasPair(cs, r) ==
    /\ \E c \in cs : c.location_id = 1 /\ c.name = UuidName(r)
    /\ \E c \in cs : c.location_id = 1 /\ c.name = ProperName(r)

\* (date, start_time, duration) of the slots on either court of the pair
PairKeys(cs, rows, r) ==
    {<<a.date, a.start_time, a.duration>> :
        a \in {x \in rows : \E c \in cs :
                    /\ c.id = x.court_id
                    /\ c.location_id = 1
                    /\ c.name \in {UuidName(r), ProperName(r)}}}

\* the metadata refresh: the club lists `listed` with their names
AddLocationBySlug(listed) ==
    LET f == RefreshCourts(courts, nextCourtId, listed)
        m == MergePlaceholders(f.courts, slots, listed)
    IN /\ f.ncid <= MaxCourtId + 1
       /\ uq_availability_slot(m.rows)
       /\ courts' = m.courts
       /\ slots' = m.rows
       /\ nextCourtId' = f.ncid
       /\ mlog' = [moved |-> Cardinality({a \in m.rows : a \notin slots}),
                   dropped |-> Cardinality(slots) - Cardinality(m.rows),
                   merged |-> {[res |-> r, keys |-> PairKeys(courts, slots, r)]
                                  : r \in {x \in listed : HasPair(courts, x)}}]
       /\ notifs' = MergeNotifications(notifs, f.courts, slots, listed)
       /\ locations' = locations \cup {1}
       /\ UNCHANGED <<otherVars, nextSlotId, sess, rlog, taskVars, orders, wlog>>

NextStore ==
    \/ \E s \in Sessions, raw \in BulkLists : FlushBulkAdd(s, raw)
    \/ \E s \in Sessions : CommitBulkAdd(s)
    \/ \E s \in Sessions : CommitConflict(s)
    \/ \E items \in LegacyLists : StoreInternal(items)
    \/ \E listed \in SUBSET Resources : AddLocationBySlug(listed)

SpecStore == InitStore /\ [][NextStore]_vars

\* C10: no two persisted slots of one court share (date, start_time,
\* duration), whatever reconciles, refreshes and merges have run.
C10_NaturalKeyUnique ==
    \A a, b \in slots :
        (a.court_id = b.court_id /\ a.date = b.date
            /\ a.start_time = b.start_time /\ a.duration = b.duration) => a.id = b.id

\* a metadata refresh has merged a placeholder whose slot the named court
\* already had (the duplicate was dropped), and the named court keeps its slot
C10_Witness ==
    /\ mlog.dropped > 0
    /\ \E a \in slots : a.court_id = 1
    /\ ~ \E c \in courts : c.name = UuidName(1)

C11_NoConflictSurfaces ==
    /\ \A s \in Sessions : ~ sess[s].err
    /\ uq_availability_slot(slots)

\* ------------------------------------------------- the search task worker
\* SearchService.get_recent_live_search(search_hash, max_age_minutes)
get_recent_live_search_any(c, hash, max_age) ==
    {r \in c : r.search_hash = hash /\ r.performed_at >= Now - max_age}
get_recent_live_search(c, hash, max_age) ==
    {r \in c : /\ r.search_hash = hash
               /\ r.live_search
               /\ r.performed_at >= Now - max_age}

\* SearchService.create_search_request_record without a concurrent writer:
\* the row of the hash is updated, or a new row is inserted
create_search_request_record(c, hash, q, at, live, found) ==
    IF \E r \in c : r.search_hash = hash
    THEN {IF r.search_hash = hash
          THEN [r EXCEPT !.performed_at = at, !.slots_found = found,
                         !.live_search = live]
          ELSE r : r \in c}
    ELSE c \cup {SearchRequest(Cardinality(c) + 1, hash, q, at, live, found)}

\* the first loop of run_search_task: live_locations is a dict, so a location
\* listed twice is kept once, at its first position
RECURSIVE live_locations(_, _, _, _)
live_locations(c, p, i, acc) ==
    IF i > Len(p.location_ids) THEN acc
    ELSE LET loc == p.location_ids[i]
             seen == \E k \in 1..Len(acc) : acc[k] = loc
             recent == get_recent_live_search(
                           c, generate_search_hash(SearchOf(p, loc)), MaxAgeMinutes)
             cached == ~ p.force_live /\ recent # {}
         IN live_locations(c, p, i + 1,
                           IF seen \/ cached THEN acc ELSE Append(acc, loc))

\* progress = int(5 + (processed / max(len(live_locations), 1)) * 80)
LocationProgress_undivided(processed, n) == 5 + processed * 80
LocationProgress(processed, n) ==
    5 + (processed * 80) \div (IF n > 1 THEN n ELSE 1)

\* the filters of the result query of run_search_task; `not Court.indoor` is
\* evaluated by Python to False before the query is built
TaskFilters_fit(p, a, c) ==
    /\ a.date = p.date
    /\ a.start_time >= p.start_time
    /\ EndTime(a.start_time, a.duration) <= p.end_time
    /\ a.duration = p.duration_minutes
    /\ a.available
    /\ \E k \in 1..Len(p.location_ids) : p.location_ids[k] = c.location_id
    /\ (p.court_type = "indoor" => c.indoor)
    /\ (p.court_type = "outdoor" => FALSE)
    /\ (p.court_config = "single" => FALSE)
    /\ (p.court_config = "double" => c.double)
TaskFilters(p, a, c) ==
    /\ a.date = p.date
    /\ a.start_time >= p.start_time
    /\ a.start_time <= p.end_time
    /\ a.duration = p.duration_minutes
    /\ a.available
    /\ \E k \in 1..Len(p.location_ids) : p.location_ids[k] = c.location_id
    /\ (p.court_type = "indoor" => c.indoor)
    /\ (p.court_type = "outdoor" => FALSE)
    /\ (p.court_config = "single" => FALSE)
    /\ (p.court_config = "double" => c.double)

TaskMatches(p, cs, rows) ==
    {x \in rows : \E c \in cs : c.id = x.court_id /\ TaskFilters(p, x, c)}

\* the rows of the result query in its ORDER BY start_time; rows of equal
\* start time come in the order of their ids
RECURSIVE QueryOrder_byid(_)
QueryOrder_byid(S) ==
    IF S = {} THEN <<>>
    ELSE LET a == CHOOSE x \in S : \A y \in S : x.id <= y.id
         IN <<a>> \o QueryOrder_byid(S \ {a})
RECURSIVE QueryOrder(_)
QueryOrder(S) ==
    IF S = {} THEN <<>>
    ELSE LET a == CHOOSE x \in S : \A y \in S :
                      \/ x.start_time < y.start_time
                      \/ x.start_time = y.start_time /\ x.id <= y.id
         IN <<a>> \o QueryOrder(S \ {a})

\* the place of a location's name in the alphabet: the names of the
\* locations run against their ids
LocationNameRank(l) == Cardinality(Locations) + 1 - l

\* locations_dict after one more row: the row goes to the entry of its
\* location and there to the entry of its court, new entries go last
AddRow(acc, loc, court, id) ==
    IF \E i \in 1..Len(acc) : acc[i].location = loc
    THEN LET i == CHOOSE k \in 1..Len(acc) : acc[k].location = loc
             cl == acc[i].courts
         IN IF \E j \in 1..Len(cl) : cl[j].court = court
            THEN LET j == CHOOSE k \in 1..Len(cl) : cl[k].court = court
                 IN [acc EXCEPT ![i].courts[j].availabilities = Append(@, id)]
            ELSE [acc EXCEPT ![i].courts =
                    Append(@, [court |-> court, availabilities |-> <<id>>])]
    ELSE Append(acc, [location |-> loc,
                      courts |-> <<[court |-> court,
                                    availabilities |-> <<id>>]>>])

\* the value of F at e, with e evaluated once
Once(F(_), e) == CHOOSE r \in {F(v) : v \in {e}} : TRUE

RECURSIVE GroupRows(_, _, _)
GroupRows(q, cs, acc) ==
    IF q = <<>> THEN acc
    ELSE LET a == Head(q)
             c == CHOOSE x \in cs : x.id = a.court_id
             rest(next) == GroupRows(Tail(q), cs, next)
         IN Once(rest, AddRow(acc, c.location_id, c.id, a.id))

\* sorted(locations_dict.items(), key=name): a stable sort
RECURSIVE SortByName(_)
SortByName(q) ==
    IF q = <<>> THEN <<>>
    ELSE LET i == CHOOSE k \in 1..Len(q) :
                      \A m \in 1..Len(q) :
                          \/ LocationNameRank(q[k].location)
                                 < LocationNameRank(q[m].location)
                          \/ /\ LocationNameRank(q[k].location)
                                    = LocationNameRank(q[m].location)
                             /\ k <= m
         IN <<q[i]>> \o SortByName(SubSeq(q, 1, i - 1)
                                       \o SubSeq(q, i + 1, Len(q)))

TaskResults(p, cs, rows) ==
    LET grouped(q) == GroupRows(q, cs, <<>>)
        compiled(m) ==
            [built |-> TRUE,
             slots |-> {a.id : a \in m},
             locations |-> Once(SortByName, Once(grouped, Once(QueryOrder, m)))]
    IN Once(compiled, TaskMatches(p, cs, rows))

\* what the provider answers for a location: its court at one of two prices,
\* or a resource the courts table does not know
TaskRaw(loc) ==
    {<<[resource |-> loc, date |-> 1, start |-> 1, duration |-> 1, price |-> pr]>>
        : pr \in Prices}
    \cup {<<[resource |-> UnknownRes, date |-> 1, start |-> 1, duration |-> 1,
             price |-> "25 EUR"]>>}

TaskCourts == {Court(l, <<"name", l>>, l, l, l = 1, FALSE) : l \in Locations}

TaskParams ==
    [location_ids : {<<1>>, <<1, 2>>, <<2, 1, 2>>},
     force_live : BOOLEAN,
     court_type : {"all", "outdoor"},
     court_config : {"all"},
     date : {1}, start_time : {1}, end_time : {2}, duration_minutes : {1}]

\* the cache entry an earlier search of another shape left for a location:
\* a live fetch exactly max age old, one unit younger, one unit older, an
\* entry that was no live fetch, or a live fetch for another date
OldEntries == {"none", "exact", "younger", "older", "notlive", "otherdate"}
OldSearch(kind, loc) ==
    [date |-> IF kind = "otherdate" THEN 2 ELSE 1, location_id |-> loc,
     start_time |-> 2, duration_minutes |-> 2, court_type |-> "indoor"]
OldAt(kind) ==
    CASE kind = "exact" -> Now - MaxAgeMinutes
      [] kind = "older" -> Now - MaxAgeMinutes - 1
      [] OTHER -> Now - MaxAgeMinutes + 1

\* a fresh database with, for some locations, the slot and the cache entry an
\* earlier search left
InitTask ==
    \E old \in [Locations -> OldEntries] :
        LET had == {l \in Locations : old[l] \notin {"none", "otherdate"}}
            rec == {l \in Locations : old[l] # "none"}
            idOf(l) == Cardinality({k \in had : k <= l})
        IN /\ courts = TaskCourts
           /\ slots = {Availability(idOf(l), l, 1, 1, EndTime(1, 1), 1, "25 EUR", TRUE)
                          : l \in had}
           /\ nextSlotId = Cardinality(had) + 1
           /\ nextCourtId = Cardinality(Locations) + 1
           /\ sess = [s \in Sessions |-> IdleSession]
           /\ locations = Locations
           /\ rlog = [raw |-> <<>>, stats |-> NoStats, allNew |-> FALSE, n |-> 0,
                      repeat |-> FALSE, unchanged |-> FALSE,
                      prevStats |-> NoStats, prevAllNew |-> FALSE]
           /\ mlog = NoMerge
           /\ old[2] \in {"none", "younger"}
           /\ cache = {SearchRequest(Cardinality({k \in rec : k <= l}),
                                     generate_search_hash(OldSearch(old[l], l)),
                                     OldSearch(old[l], l), OldAt(old[l]),
                                     old[l] # "notlive", 1) : l \in rec}
           /\ task = NoTask
           /\ params = NoParams
           /\ w = IdleWorker
           /\ sessionFailed = FALSE
           /\ creq = NoCancel
           /\ plog = <<>>
           /\ olog = NoObserved
           /\ WatchIdle
           /\ RaceIdle

\* POST /search/start: create_task and the start of the worker thread
StartSearchTask(p) ==
    /\ ~ task.exists
    /\ task' = create_task("u1", p)
    /\ params' = p
    /\ w' = [IdleWorker EXCEPT !.pc = "start"]
    /\ plog' = <<0>>
    /\ UNCHANGED <<otherVars, storeVars, obsVars, watchVars, cache, sessionFailed, creq, olog>>

\* run_search_task: task_service.start_task
WorkerStart ==
    /\ w.pc = "start"
    /\ task' = start_task(task)
    /\ w' = [w EXCEPT !.pc = "init"]
    /\ UNCHANGED <<otherVars, storeVars, obsVars, watchVars, cache, params, sessionFailed, creq, plog, olog>>

\* run_search_task: the first progress write
WorkerInit ==
    /\ w.pc = "init"
    /\ task' = update_task_progress(task, 5, 0, None)
    /\ plog' = Append(plog, task'.progress)
    /\ w' = [w EXCEPT !.pc = "plan"]
    /\ UNCHANGED <<otherVars, storeVars, obsVars, watchVars, cache, params, sessionFailed, creq, olog>>

\* run_search_task: the cache check and the second progress write
WorkerPlan ==
    /\ w.pc = "plan"
    /\ LET live == live_locations(cache, params, 1, <<>>)
       IN /\ task' = update_task_progress(task, 5, 0, Len(live))
          /\ w' = [w EXCEPT !.pc = "fetch", !.live = live, !.idx = 1,
                            !.processed = 0]
    /\ plog' = Append(plog, task'.progress)
    /\ olog' = [olog EXCEPT !.seen = cache]
    /\ UNCHANGED <<otherVars, storeVars, obsVars, watchVars, cache, params, sessionFailed, creq>>

\* run_search_task reaches create_search_request_record: the call follows
\* provider.fetch_and_store_availability inside the try of the location, so
\* the request, the parse, the session and the commit all passed
FetchReturned_always(http_error, ok, failed, conflict) == TRUE
FetchReturned(http_error, ok, failed, conflict) ==
    ~ http_error /\ ok /\ ~ failed /\ ~ conflict

\* run_search_task: one location of the fetch loop, up to the cache record.
\* The provider raises or answers `raw`; the reconcile raises when a resource
\* is unknown, when the session is in a failed transaction, or when its flush
\* meets rows another process committed first (`conflict`), and a failed flush
\* is never rolled back.
FetchLocation(http_error, raw, conflict) ==
    /\ w.pc = "fetch"
    /\ w.idx <= Len(w.live)
    /\ LET loc == w.live[w.idx]
           p == parse_availability(courts, loc, raw, 1, <<>>)
           r == bulk_add_availabilities(slots, nextSlotId, p.avs)
           stored == ~ http_error /\ p.ok /\ ~ sessionFailed
       IN /\ conflict => stored /\ r.stats.added > 0
          /\ olog' = [olog EXCEPT !.lateFetch =
                         IF olog.cancelled THEN @ \cup {loc} ELSE @]
          /\ IF stored
             THEN /\ slots' = r.rows
                  /\ nextSlotId' = r.nid
             ELSE UNCHANGED <<locations, slots, nextSlotId>>
          /\ sessionFailed' = (sessionFailed \/ conflict)
          /\ cache' = IF FetchReturned(http_error, p.ok, sessionFailed, conflict)
                       THEN create_search_request_record(
                                cache, generate_search_hash(SearchOf(params, loc)),
                                SearchOf(params, loc), Now, TRUE,
                                r.stats.added + r.stats.updated)
                       ELSE cache
          /\ IF stored /\ ~ conflict
             THEN w' = [w EXCEPT !.pc = "progress",
                                 !.fetched = @ \cup {loc}]
             ELSE w' = [w EXCEPT !.idx = @ + 1,
                                 !.fetched = @ \cup {loc},
                                 !.raised = @ \cup {loc}]
    /\ UNCHANGED <<locations, otherVars, courts, nextCourtId, sess, obsVars, watchVars, task, params, creq, plog>>

\* run_search_task: the progress write after a location
WorkerProgress ==
    /\ w.pc = "progress"
    /\ task' = update_task_progress(task,
                   LocationProgress(w.processed + 1, Len(w.live)),
                   w.processed + 1, None)
    /\ plog' = Append(plog, task'.progress)
    /\ w' = [w EXCEPT !.pc = "fetch", !.idx = @ + 1, !.processed = @ + 1]
    /\ UNCHANGED <<otherVars, storeVars, obsVars, watchVars, cache, params, sessionFailed, creq, olog>>

\* run_search_task: the progress write before the result query
WorkerCompile ==
    /\ w.pc = "fetch"
    /\ w.idx > Len(w.live)
    /\ task' = update_task_progress(task, 85, Len(w.live), None)
    /\ plog' = Append(plog, task'.progress)
    /\ w' = [w EXCEPT !.pc = "match"]
    /\ UNCHANGED <<otherVars, storeVars, obsVars, watchVars, cache, params, sessionFailed, creq, olog>>

\* run_search_task: the result query on availability_service.session and
\* complete_task; the query raises on a session in a failed transaction
WorkerComplete ==
    /\ w.pc = "match"
    /\ IF sessionFailed
       THEN /\ w' = [w EXCEPT !.pc = "except"]
            /\ UNCHANGED <<locations, task, plog>>
       ELSE /\ task' = complete_task(task, TaskResults(params, courts, slots))
            /\ plog' = Append(plog, task'.progress)
            /\ w' = [w EXCEPT !.pc = "done"]
    /\ UNCHANGED <<otherVars, storeVars, obsVars, watchVars, cache, params, sessionFailed, creq, olog>>

\* run_search_task: the outer except
WorkerFail ==
    /\ w.pc = "except"
    /\ task' = fail_task(task)
    /\ w' = [w EXCEPT !.pc = "done"]
    /\ UNCHANGED <<otherVars, storeVars, obsVars, watchVars, cache, params, sessionFailed, creq, plog, olog>>

\* POST /search/<task_id>/cancel: the read of the task and the status test
CancelCheck ==
    /\ task.exists
    /\ creq.pc = "idle"
    /\ creq.n < MaxCancels
    /\ IF task.status \in {"pending", "running"}
       THEN creq' = [creq EXCEPT !.pc = "checked", !.resp = "none",
                                 !.statusAtCheck = task.status,
                                 !.statusAfter = "none"]
       ELSE creq' = [creq EXCEPT !.n = @ + 1, !.resp = "rejected",
                                 !.statusAtCheck = task.status,
                                 !.statusAfter = task.status]
    /\ UNCHANGED <<otherVars, storeVars, obsVars, watchVars, cache, task, params, w, sessionFailed, plog, olog>>

\* POST /search/<task_id>/cancel: cancel_task and the 200 answer
CancelApply ==
    /\ creq.pc = "checked"
    /\ task' = cancel_task(task)
    /\ creq' = [creq EXCEPT !.pc = "idle", !.n = @ + 1, !.resp = "ok",
                            !.statusAfter = task'.status]
    /\ olog' = [olog EXCEPT !.cancelled = @ \/ task' # task]
    /\ UNCHANGED <<otherVars, storeVars, obsVars, watchVars, cache, params, w, sessionFailed, plog>>

Worker ==
    \/ WorkerStart
    \/ WorkerInit
    \/ WorkerPlan
    \/ /\ w.pc = "fetch"
       /\ w.idx <= Len(w.live)
       /\ \E http_error \in BOOLEAN, conflict \in BOOLEAN :
             \E raw \in TaskRaw(w.live[w.idx]) :
                FetchLocation(http_error, raw, conflict)
    \/ WorkerProgress
    \/ WorkerCompile
    \/ WorkerComplete
    \/ WorkerFail

NextTask ==
    \/ \E p \in TaskParams : StartSearchTask(p)
    \/ Worker
    \/ CancelCheck
    \/ CancelApply

SpecTask == InitTask /\ [][NextTask]_vars

\* the worker thread keeps being scheduled and a cancel request in flight is
\* answered
SpecTaskFair == SpecTask /\ WF_vars(Worker) /\ WF_vars(CancelApply)

\* a sequence of numbers that never steps down
NonDecreasing(q) == \A i \in 1..(Len(q) - 1) : q[i] <= q[i + 1]

\* C3: once the status of a task is completed, failed or cancelled, no step
\* of the worker or of a cancel request changes it.
C3_TerminalAbsorbing ==
    [][task.status \in Terminal => task'.status = task.status]_vars

\* C4: once cancel_task has moved the task to cancelled, the worker starts
\* no provider fetch for a location it had not yet begun.
C4_NoFetchAfterCancel == olog.lateFetch = {}

\* C5: a cancel request answered "Task cancelled" found the task pending or
\* running and leaves it cancelled; a rejected one found it completed,
\* failed or cancelled and left it as it was.
C5_CancelContract ==
    /\ creq.resp = "ok" =>
          /\ creq.statusAtCheck \in {"pending", "running"}
          /\ creq.statusAfter = "cancelled"
    /\ creq.resp = "rejected" =>
          /\ creq.statusAtCheck \in Terminal
          /\ creq.statusAfter = creq.statusAtCheck

\* C6: the progress values written to a task (0 at creation, every
\* update_task_progress, the write of complete_task) never step down, and
\* the last one of a completed task is 100.
C6_ProgressMonotone ==
    /\ NonDecreasing(plog)
    /\ task.status = "completed" => plog[Len(plog)] = 100 /\ task.progress = 100
    /\ task.exists => task.progress = plog[Len(plog)]

C6_Witness ==
    /\ task.status = "completed"
    /\ Len(w.live) = 2
    /\ w.processed = 2
    /\ plog = <<0, 5, 5, 45, 85, 85, 100>>

\* C7: a submitted task reaches one of the statuses completed, failed or
\* cancelled, and once its worker has ended it keeps one of them.
C7_ReachesTerminal ==
    /\ task.exists ~> task.status \in Terminal
    /\ [](w.pc = "done" => task.status \in Terminal)

C7_Witness ==
    /\ w.pc = "done"
    /\ task.status = "failed"

\* C8: when the provider fetch or the reconcile raised for some locations,
\* the worker has still fetched every location that needed a live fetch and
\* the task ends completed, with results.
C8_FailuresSkipped ==
    (w.pc = "done" /\ w.raised # {}) =>
        /\ w.fetched = {w.live[k] : k \in 1..Len(w.live)}
        /\ task.status = "completed"
        /\ task.results.built

\* the worker is past its fetch loop
PastFetch == w.pc \in {"match", "except", "done"}

\* the locations of the task for which the cache, as the worker found it, held
\* a live-fetch entry for the task's date whose age satisfies Aged(_)
RECURSIVE SetOfSeq(_)
SetOfSeq(q) == IF q = <<>> THEN {} ELSE {Head(q)} \cup SetOfSeq(Tail(q))
LiveEntries(loc) ==
    {r \in olog.seen : /\ r.date = params.date
                       /\ r.location_id = loc
                       /\ r.live_search}

\* C13: in a non-forced search a location whose live-fetch entry is exactly
\* MaxAgeMinutes old is fetched live, and a location whose entry is one time
\* unit younger is not fetched
C13_BoundaryStale ==
    (PastFetch /\ ~ params.force_live) =>
        \A loc \in SetOfSeq(params.location_ids) :
            /\ (\E r \in LiveEntries(loc) : Now - r.performed_at = MaxAgeMinutes)
                   => loc \in w.fetched
            /\ (\E r \in LiveEntries(loc) :
                       Now - r.performed_at = MaxAgeMinutes - 1)
                   => loc \notin w.fetched

\* C14: once the fetch loop is over, the locations the provider was called
\* for are exactly those of the task for which the search was forced, or no
\* live-fetch entry for (date, location) existed, or every such entry was
\* older than MaxAgeMinutes
C14_FetchIff ==
    PastFetch =>
        w.fetched =
            {loc \in SetOfSeq(params.location_ids) :
                \/ params.force_live
                \/ LiveEntries(loc) = {}
                \/ \A r \in LiveEntries(loc) :
                       Now - r.performed_at > MaxAgeMinutes}

\* a non-forced task skipped one location and fetched another whose only
\* entry was too old or was no live fetch
C14_Witness ==
    /\ w.pc = "done"
    /\ ~ params.force_live
    /\ \E loc \in SetOfSeq(params.location_ids) : loc \notin w.fetched
    /\ \E loc \in w.fetched :
          \E r \in olog.seen : /\ r.location_id = loc
                                /\ r.date = params.date
                                /\ (~ r.live_search
                                    \/ Now - r.performed_at > MaxAgeMinutes)

\* C16: a non-forced task skips every location for which another search of
\* the same date, with another time window, duration and court type, recorded
\* a live fetch within the max age
C16_SharedAcrossShapes ==
    (PastFetch /\ ~ params.force_live) =>
        \A loc \in SetOfSeq(params.location_ids) :
            (\E r \in LiveEntries(loc) :
                 /\ Now - r.performed_at < MaxAgeMinutes
                 /\ r.start_time # params.start_time
                 /\ r.duration_minutes # params.duration_minutes
                 /\ r.court_type # params.court_type)
            => loc \notin w.fetched

\* a finished non-forced task skipped a location on the strength of an entry
\* recorded by a search of another shape
C16_Witness ==
    /\ w.pc = "done"
    /\ ~ params.force_live
    /\ \E loc \in SetOfSeq(params.location_ids) :
          /\ loc \notin w.fetched
          /\ \E r \in LiveEntries(loc) :
                /\ Now - r.performed_at < MaxAgeMinutes
                /\ r.court_type # params.court_type
                /\ r.start_time # params.start_time

\* ------------------------------------------- concurrent writes of the cache
\* Two calls of create_search_request_record for one search hash.  The only
\* caller is run_search_task, a thread of the web process, and search_service
\* is one object per process holding one session: the two calls either run in
\* two processes, each with its own session, or in two threads of one
\* process, on the same session (upsert.shared).  A session flushes on commit
\* and before a query every object added to it, whoever added it, and a
\* rollback discards them all.
Callers == {1, 2}
SlotCounts == {1, 2}
TheSearch == [date |-> 1, location_id |-> 1, start_time |-> 1,
              duration_minutes |-> 1, court_type |-> "all"]
TheHash == generate_search_hash(TheSearch)
OtherSearch == [TheSearch EXCEPT !.date = 2]

\* datetime.now(UTC) of a call
Stamp(c) == Now + c

SessionOf(u, c) == IF u.shared THEN 1 ELSE c
Pending(u, c) == {x \in u.pending : SessionOf(u, x.owner) = SessionOf(u, c)}
HashRows(c) == {r \in c : r.search_hash = TheHash}

NewCall(found) ==
    [pc |-> "query", slots_found |-> found, sawNone |-> FALSE,
     raised |-> FALSE]

InitCache ==
    \E shared \in BOOLEAN, f \in [Callers -> SlotCounts], other \in BOOLEAN :
        /\ courts = InitCourts
        /\ slots = {}
        /\ nextSlotId = 1
        /\ nextCourtId = Cardinality(courts) + 1
        /\ sess = [s \in Sessions |-> IdleSession]
        /\ locations = Locations
        /\ rlog = [raw |-> <<>>, stats |-> NoStats, allNew |-> FALSE, n |-> 0,
                   repeat |-> FALSE, unchanged |-> FALSE,
                   prevStats |-> NoStats, prevAllNew |-> FALSE]
        /\ mlog = NoMerge
        /\ NoTaskRunning
        /\ cache = IF other
                   THEN {SearchRequest(1, generate_search_hash(OtherSearch),
                                       OtherSearch, Now, TRUE, 1)}
                   ELSE {}
        /\ WatchIdle
        /\ runs = NoRuns
        /\ tick = NoTick
        /\ probe = NoProbe
        /\ upsert = [shared |-> shared, pending |-> {},
                     call |-> [c \in Callers |-> NewCall(f[c])]]

\* the update of the row of the hash with the values of call c
UpdateExisting(rows, c) ==
    {IF r.search_hash = TheHash
     THEN [r EXCEPT !.performed_at = Stamp(c),
                    !.slots_found = upsert.call[c].slots_found,
                    !.live_search = TRUE]
     ELSE r : r \in rows}

\* the rows a flush of the objects in P inserts
Inserted(rows, P) ==
    {SearchRequest(Cardinality(rows) + 1, TheHash, TheSearch, x.at, TRUE,
                   x.slots_found) : x \in P}

\* the unique constraint on search_hash rejects the flush of P
HashConflict(rows, P) ==
    \/ Cardinality(P) > 1
    \/ P # {} /\ HashRows(rows) # {}

\* lines 57-70: the query, and with a row found the update and its commit,
\* which is outside the try block
QueryExisting(c) ==
    /\ upsert.call[c].pc = "query"
    /\ LET P == Pending(upsert, c)
           seen == HashRows(cache) # {} \/ P # {}
       IN IF ~ seen
          THEN /\ upsert' = [upsert EXCEPT !.call[c].pc = "add",
                                           !.call[c].sawNone = TRUE]
               /\ cache' = cache
          ELSE IF HashConflict(cache, P)
          THEN /\ upsert' = [upsert EXCEPT !.call[c].pc = "done",
                                           !.call[c].raised = TRUE]
               /\ cache' = cache
          ELSE /\ cache' = UpdateExisting(cache \cup Inserted(cache, P), c)
               /\ upsert' = [upsert EXCEPT !.call[c].pc = "done",
                                           !.pending = @ \ P]
    /\ UNCHANGED <<storeVars, obsVars, watchVars, runs, tick, probe, task, params, w,
                   sessionFailed, creq, plog, olog>>

\* line 87: session.add
AddRecord(c) ==
    /\ upsert.call[c].pc = "add"
    /\ upsert' = [upsert EXCEPT
                     !.call[c].pc = "commit",
                     !.pending = @ \cup {[owner |-> c, at |-> Stamp(c),
                                          slots_found |->
                                              upsert.call[c].slots_found]}]
    /\ UNCHANGED <<storeVars, obsVars, watchVars, runs, tick, probe, taskVars>>

\* lines 88-92: the commit; on IntegrityError the rollback
CommitRecord(c) ==
    /\ upsert.call[c].pc = "commit"
    /\ LET P == Pending(upsert, c)
       IN IF HashConflict(cache, P)
          THEN /\ upsert' = [upsert EXCEPT !.call[c].pc = "requery",
                                           !.pending = @ \ P]
               /\ cache' = cache
          ELSE /\ cache' = cache \cup Inserted(cache, P)
               /\ upsert' = [upsert EXCEPT !.call[c].pc = "done",
                                           !.pending = @ \ P]
    /\ UNCHANGED <<storeVars, obsVars, watchVars, runs, tick, probe, task, params, w,
                   sessionFailed, creq, plog, olog>>

\* lines 93-104: the second query, the update and its commit, or the re-raise
RequeryRecord(c) ==
    /\ upsert.call[c].pc = "requery"
    /\ LET P == Pending(upsert, c)
           seen == HashRows(cache) # {} \/ P # {}
       IN IF ~ seen \/ HashConflict(cache, P)
          THEN /\ upsert' = [upsert EXCEPT !.call[c].pc = "done",
                                           !.call[c].raised = TRUE]
               /\ cache' = cache
          ELSE /\ cache' = UpdateExisting(cache \cup Inserted(cache, P), c)
               /\ upsert' = [upsert EXCEPT !.call[c].pc = "done",
                                           !.pending = @ \ P]
    /\ UNCHANGED <<storeVars, obsVars, watchVars, runs, tick, probe, task, params, w,
                   sessionFailed, creq, plog, olog>>

NextCache ==
    \E c \in Callers :
        \/ QueryExisting(c)
        \/ AddRecord(c)
        \/ CommitRecord(c)
        \/ RequeryRecord(c)

SpecCache == InitCache /\ [][NextCache]_vars

\* both calls have returned or raised, and both found no row at their query
BothRaced ==
    \A c \in Callers : upsert.call[c].pc = "done" /\ upsert.call[c].sawNone

\* C15: when both calls found no row, neither raises, and afterwards exactly
\* one row has the hash, with the timestamp and slot count of one of them
C15_UpsertRace ==
    (upsert.call # <<>> /\ BothRaced) =>
        /\ \A c \in Callers : ~ upsert.call[c].raised
        /\ Cardinality(HashRows(cache)) = 1
        /\ \A r \in HashRows(cache) :
              \E c \in Callers : /\ r.performed_at = Stamp(c)
                                  /\ r.slots_found = upsert.call[c].slots_found

\* ------------------------------------------------- the matcher of the task
\* The result query of run_search_task applied to a table of two slots: a
\* probe slot of any court, date, start, duration and availability, and one
\* slot that passes every test of a search of location 1.
MatchCourts ==
    {Court(1, ProperName(1), 1, 1, TRUE, FALSE),
     Court(2, ProperName(2), 1, 2, FALSE, TRUE),
     Court(3, ProperName(1), 2, 1, FALSE, FALSE),
     Court(4, ProperName(2), 2, 2, TRUE, TRUE)}
ProbeStarts == 0..3
ProbeDates == {1, 2}
MatchParams ==
    [location_ids : {<<1>>, <<1, 2>>},
     force_live : {FALSE},
     court_type : {"all", "indoor", "outdoor"},
     court_config : {"all", "single", "double"},
     date : {1}, start_time : {1}, end_time : {2}, duration_minutes : {1}]

InitMatch ==
    \E c \in MatchCourts, d \in ProbeDates, st \in ProbeStarts,
       dur \in Durations, av \in BOOLEAN :
        LET first == Availability(1, c.id, d, st, EndTime(st, dur), dur,
                                  "25 EUR", av)
            other == Availability(2, 2, 1, 1, EndTime(1, 1), 1, "25 EUR", TRUE)
        IN /\ NaturalKey(first) # NaturalKey(other)
           /\ courts = MatchCourts
           /\ slots = {first, other}
           /\ nextSlotId = 3
           /\ nextCourtId = Cardinality(MatchCourts) + 1
           /\ sess = [s \in Sessions |-> IdleSession]
           /\ locations = Locations
           /\ rlog = [raw |-> <<>>, stats |-> NoStats, allNew |-> FALSE,
                      n |-> 0, repeat |-> FALSE, unchanged |-> FALSE,
                      prevStats |-> NoStats, prevAllNew |-> FALSE]
           /\ mlog = NoMerge
           /\ TaskIdle
           /\ WatchIdle
           /\ RaceIdle

\* run_search_task from the filters to complete_task, for a search that
\* needed no live fetch
CompileResults(p) ==
    /\ ~ task.exists
    /\ params' = p
    /\ task' = complete_task(create_task("u1", p), TaskResults(p, courts, slots))
    /\ UNCHANGED <<otherVars, storeVars, obsVars, watchVars, cache, w,
                   sessionFailed, creq, plog, olog>>

NextMatch == \E p \in MatchParams : CompileResults(p)

SpecMatch == InitMatch /\ [][NextMatch]_vars

\* the court of a slot
CourtOf(a) == CHOOSE c \in courts : c.id = a.court_id

\* the tests of date, window, duration, availability and location
PassesTests(p, a) ==
    /\ a.date = p.date
    /\ p.start_time <= a.start_time
    /\ a.start_time <= p.end_time
    /\ a.duration = p.duration_minutes
    /\ a.available
    /\ CourtOf(a).location_id \in SetOfSeq(p.location_ids)

\* the slot's court belongs to the selected court type and court config
InCategory(p, a) ==
    /\ p.court_type = "indoor" => CourtOf(a).indoor
    /\ p.court_type = "outdoor" => ~ CourtOf(a).indoor
    /\ p.court_config = "single" => ~ CourtOf(a).double
    /\ p.court_config = "double" => CourtOf(a).double

\* C17: every slot the matcher returns has the date of the search, a start
\* time within [start_time, end_time], the duration of the search, is
\* available and on a court of one of the locations; with no category filter
\* the matcher returns exactly these slots, whatever their end time
C17_WindowOnStart ==
    task.status = "completed" =>
        /\ \A a \in slots : a.id \in task.results.slots => PassesTests(params, a)
        /\ (params.court_type = "all" /\ params.court_config = "all") =>
              task.results.slots = {a.id : a \in {x \in slots :
                                                     PassesTests(params, x)}}

\* a slot starting exactly at end_time and ending after it was returned
C17_Witness ==
    /\ task.status = "completed"
    /\ \E a \in slots : /\ a.id \in task.results.slots
                         /\ a.start_time = params.end_time
                         /\ a.start_time + a.duration > params.end_time

\* the slot ids listed in a result, with the location and the court each is
\* listed under, as <<location place, court place, slot place, id>>
Listed(L) ==
    UNION {UNION {{<<i, j, k, L[i].courts[j].availabilities[k]>> :
                      k \in 1..Len(L[i].courts[j].availabilities)} :
                  j \in 1..Len(L[i].courts)} :
           i \in 1..Len(L)}
StartOf(id) == (CHOOSE a \in slots : a.id = id).start_time

\* C23: the result of a completed task lists no location twice and the
\* locations in ascending order of their names, no court twice and every
\* court under its own location, the slots of a court in ascending order of
\* start time, and every matched slot exactly once
C23_GroupedAndOrdered ==
    task.status = "completed" =>
        LET L == task.results.locations
        IN /\ \A i, m \in 1..Len(L) :
                 i < m => LocationNameRank(L[i].location)
                             < LocationNameRank(L[m].location)
           /\ \A i \in 1..Len(L) :
                 LET cl == L[i].courts
                 IN /\ cl # <<>>
                    /\ \A j, m \in 1..Len(cl) :
                          j < m => cl[j].court # cl[m].court
                    /\ \A j \in 1..Len(cl) :
                          /\ \E c \in courts : /\ c.id = cl[j].court
                                                /\ c.location_id = L[i].location
                          /\ cl[j].availabilities # <<>>
                          /\ \A k, m \in 1..Len(cl[j].availabilities) :
                                k < m => StartOf(cl[j].availabilities[k])
                                           <= StartOf(cl[j].availabilities[m])
                          /\ \A k \in 1..Len(cl[j].availabilities) :
                                \E a \in slots :
                                    /\ a.id = cl[j].availabilities[k]
                                    /\ a.court_id = cl[j].court
           /\ {q[4] : q \in Listed(L)} = task.results.slots
           /\ Cardinality(Listed(L)) = Cardinality(task.results.slots)

\* a result with two slots of one court, the later-stored one first, or with
\* two locations, the one whose slot starts later first
C23_Witness ==
    /\ task.status = "completed"
    /\ LET L == task.results.locations
       IN \/ /\ Len(L) = 2
             /\ StartOf(L[1].courts[1].availabilities[1])
                    > StartOf(L[2].courts[1].availabilities[1])
          \/ /\ Len(L) = 1
             /\ L[1].courts[1].availabilities = <<2, 1>>

\* C18: the matcher returns exactly the slots that pass the tests of date,
\* window, duration, availability and location and whose court belongs to
\* the selected court type and court config
C18_CategoryFilters ==
    task.status = "completed" =>
        task.results.slots =
            {a.id : a \in {x \in slots : /\ PassesTests(params, x)
                                         /\ InCategory(params, x)}}

\* ------------------------------------------------------ the saved searches
\* search_orders row
SearchOrder(id, end, court_type, court_config, active) ==
    [id |-> id, location_ids |-> <<1>>, date |-> 1, start_time |-> 1,
     end_time |-> end, duration_minutes |-> 1, court_type |-> court_type,
     court_config |-> court_config, is_active |-> active, last_check_at |-> 0]

\* search_order_notifications row
SearchOrderNotification(id, o, court, avail) ==
    [id |-> id, search_order_id |-> o, court_id |-> court,
     availability_id |-> avail, notified |-> FALSE]

\* the query of SearchOrderService.get_notification_candidates: the order's
\* slot end is compared in Python, `not Court.indoor` and `not Court.double`
\* are evaluated by Python to False before the query is built
OrderMatches(o, cs, rows) ==
    {a \in rows :
        /\ a.date = o.date
        /\ a.available
        /\ a.duration = o.duration_minutes
        /\ a.start_time >= o.start_time
        /\ a.start_time <= o.end_time
        /\ EndTime(o.start_time, o.duration_minutes) <= o.end_time
        /\ \E c \in cs :
              /\ c.id = a.court_id
              /\ (o.court_type = "indoor" => c.indoor)
              /\ (o.court_type = "outdoor" => FALSE)
              /\ (o.court_config = "single" => FALSE)
              /\ (o.court_config = "double" => c.double)}

\* SearchOrderService.get_notification_candidates
get_notification_candidates(o, cs, rows, ns) ==
    {a \in OrderMatches(o, cs, rows) :
        ~ \E n \in ns : /\ n.search_order_id = o.id
                        /\ n.availability_id = a.id}

\* SearchOrderService.create_notification_record
create_notification_record_lost(ns, o, court, avail) == ns
create_notification_record(ns, o, court, avail) ==
    ns \cup {SearchOrderNotification(Cardinality(ns) + 1, o, court, avail)}

\* the loop of fetch_and_search_availability over its candidates, given as
\* pairs <<court id, availability id>>
RECURSIVE create_notification_records(_, _, _)
create_notification_records(ns, o, cands) ==
    IF cands = {} THEN ns
    ELSE LET c == CHOOSE x \in cands : \A y \in cands : x[2] <= y[2]
         IN create_notification_records(
                create_notification_record(ns, o, c[1], c[2]), o, cands \ {c})

\* what the provider answers in a watch run: nothing, or court 1 at a price
WatchRaw ==
    {<<>>} \cup
    {<<[resource |-> 1, date |-> 1, start |-> 1, duration |-> 1, price |-> pr]>>
        : pr \in Prices}

\* two saved searches of one user on location 1; the first takes any court
WatchInit(cs, rows) ==
    \E second \in {SearchOrder(2, 2, "indoor", "all", TRUE),
                    SearchOrder(2, 1, "all", "all", TRUE),
                    SearchOrder(2, 2, "outdoor", "double", TRUE),
                    SearchOrder(2, 2, "all", "all", FALSE)} :
        /\ courts = cs
        /\ slots = rows
        /\ nextSlotId = Cardinality(rows) + 1
        /\ nextCourtId = Cardinality(cs) + 1
        /\ sess = [s \in Sessions |-> IdleSession]
        /\ locations = Locations
        /\ rlog = [raw |-> <<>>, stats |-> NoStats, allNew |-> FALSE, n |-> 0,
                   repeat |-> FALSE, unchanged |-> FALSE,
                   prevStats |-> NoStats, prevAllNew |-> FALSE]
        /\ mlog = NoMerge
        /\ TaskIdle
        /\ orders = {SearchOrder(1, 2, "all", "all", TRUE), second}
        /\ notifs = {}
        /\ wlog = NoWatch
        /\ RaceIdle

InitWatch == WatchInit({Court(1, ProperName(1), 1, 1, TRUE, FALSE)}, {})

\* BaseCourtProvider.fetch_and_search_availability for one saved search: the
\* fetch of every location (location 1) with its errors caught, then the
\* candidates and one notification record for each
FetchAndSearchAvailability(o, http_error, raw) ==
    /\ o \in orders
    /\ LET p == parse_availability(courts, 1, raw, 1, <<>>)
           stored == ~ http_error /\ p.ok
           r == IF stored
                THEN bulk_add_availabilities(slots, nextSlotId, p.avs)
                ELSE [rows |-> slots, nid |-> nextSlotId, stats |-> NoStats]
           matched == OrderMatches(o, courts, r.rows)
           cands == get_notification_candidates(o, courts, r.rows, notifs)
           pairs == {<<o.id, a.id>> : a \in cands}
       IN /\ slots' = r.rows
          /\ nextSlotId' = r.nid
          /\ notifs' = create_notification_records(
                            notifs, o.id, {<<a.court_id, a.id>> : a \in cands})
          /\ wlog' = [wlog EXCEPT
                 !.cand = @ \cup {[order |-> o.id, slot |-> a.id, price |-> a.price]
                                     : a \in cands},
                 !.candAgain = @ \cup
                     {q \in pairs : \E c \in wlog.cand :
                                       c.order = q[1] /\ c.slot = q[2]},
                 !.skipped = @ \cup {<<o.id, a.id>> : a \in matched \ cands}]
    /\ UNCHANGED <<locations, otherVars, courts, nextCourtId, sess, obsVars, taskVars, orders>>

\* the location loop of execute_search_order_task for an order on location 1:
\* the courts handed to the notifier, from the rows after the legacy store
AllCourts(o, cs, rows, fetch_ok) ==
    IF ~ fetch_ok THEN {}
    ELSE {a \in rows :
            /\ a.date = o.date
            /\ a.start_time >= o.start_time
            /\ a.start_time <= o.end_time
            /\ a.duration = o.duration_minutes
            /\ a.available
            /\ \E c \in cs :
                  /\ c.id = a.court_id
                  /\ c.location_id = 1
                  /\ (o.court_type = "indoor" => c.indoor)
                  /\ (o.court_type = "outdoor" => ~ c.indoor)
                  /\ (o.court_config = "single" => ~ c.double)
                  /\ (o.court_config = "double" => c.double)}

\* what execute_search_order_task did for one order
NoOutcome == [ran |-> FALSE, fetched |-> FALSE, matches |-> {}, handed |-> {}]

\* an exception of the kind err leaves execute_search_order_task: the fetch
\* is inside the try of the location loop and the notifier inside the outer
\* try, so none does
Escapes_notify(err) == err = "notify"
Escapes(err) == FALSE

\* execute_search_order_task for the order oid on the state
\* st = [courts, rows, ncid, nid, orders, handed, handedAgain, last]; err is
\* "fetch" when the provider raises, "notify" when the notifier raises
execute_search_order_task(st, oid, err, items, now) ==
    LET os == {x \in st.orders : x.id = oid}
    IN IF os = {} \/ \E x \in os : ~ x.is_active
       THEN [st EXCEPT !.last = NoOutcome]
       ELSE LET o == CHOOSE x \in os : TRUE
                r == IF err = "fetch"
                     THEN [courts |-> st.courts, rows |-> st.rows,
                           ncid |-> st.ncid, nid |-> st.nid]
                     ELSE store_internal_availabilities(st.courts, st.rows,
                                                        st.ncid, st.nid, items)
                found == AllCourts(o, r.courts, r.rows, err # "fetch")
                pairs == IF err = "notify" THEN {}
                         ELSE {<<o.id, a.id>> : a \in found}
            IN [courts |-> r.courts, rows |-> r.rows, ncid |-> r.ncid,
                nid |-> r.nid,
                orders |-> (st.orders \ {o})
                             \cup {[o EXCEPT !.last_check_at = now]},
                handed |-> st.handed \cup pairs,
                handedAgain |-> st.handedAgain \cup (pairs \cap st.handed),
                last |-> [ran |-> TRUE, fetched |-> err # "fetch",
                          matches |-> {a.id : a \in found},
                          handed |-> {q[2] : q \in pairs}]]

\* the loop of check_active_search_orders over the ids it selected
RECURSIVE execute_search_order_tasks(_, _, _, _, _, _)
execute_search_order_tasks(st, ids, i, err, items, now) ==
    IF i > Len(ids) THEN st
    ELSE LET st2 == execute_search_order_task(st, ids[i], err, items, now)
         IN IF Escapes(err) /\ st2.last.ran THEN st2
            ELSE execute_search_order_tasks(st2, ids, i + 1, err, items, now)

\* check_active_search_orders: one tick of the re-check scheduler, with the
\* same provider behaviour for every order
CheckActiveSearchOrders(err, items) ==
    LET st == execute_search_order_tasks(
                  [courts |-> courts, rows |-> slots, ncid |-> nextCourtId,
                   nid |-> nextSlotId, orders |-> orders,
                   handed |-> wlog.handed, handedAgain |-> wlog.handedAgain,
                   last |-> NoOutcome],
                  <<1, 2>>, 1, err, items, 1)
    IN /\ courts' = st.courts
       /\ slots' = st.rows
       /\ nextCourtId' = st.ncid
       /\ nextSlotId' = st.nid
       /\ orders' = st.orders
       /\ wlog' = [wlog EXCEPT !.handed = st.handed,
                               !.handedAgain = st.handedAgain]
       /\ UNCHANGED <<locations, otherVars, sess, obsVars, taskVars, notifs>>

NextWatch ==
    \/ \E o \in orders, http_error \in BOOLEAN, raw \in WatchRaw :
          FetchAndSearchAvailability(o, http_error, raw)
    \/ \E err \in {"none", "fetch"}, items \in LegacyLists :
          CheckActiveSearchOrders(err, items)

SpecWatch == InitWatch /\ [][NextWatch]_vars

C2_CandidateAtMostOnce == wlog.candAgain = {}

C2_Witness ==
    \E c \in wlog.cand :
        /\ <<c.order, c.slot>> \in wlog.skipped
        /\ \E a \in slots : a.id = c.slot /\ a.price # c.price
        /\ \E n \in notifs : /\ n.search_order_id = c.order
                             /\ n.availability_id = c.slot

\* the slots that match a saved search: date, start within the window,
\* duration, availability, court type and court config, and a court of one
\* of its locations
MatchesOrder(o, a) ==
    /\ a.date = o.date
    /\ o.start_time <= a.start_time
    /\ a.start_time <= o.end_time
    /\ a.duration = o.duration_minutes
    /\ a.available
    /\ CourtOf(a).location_id \in SetOfSeq(o.location_ids)
    /\ o.court_type = "indoor" => CourtOf(a).indoor
    /\ o.court_type = "outdoor" => ~ CourtOf(a).indoor
    /\ o.court_config = "single" => ~ CourtOf(a).double
    /\ o.court_config = "double" => CourtOf(a).double

Recorded(o, a) ==
    \E n \in notifs : n.search_order_id = o.id /\ n.availability_id = a.id

\* ----------------------------------------- overlapping runs of a saved search
\* fetch_and_search_availability is not atomic: between its candidate query
\* and its notification records another run for the same saved search can
\* query its own candidates.
MaxRuns == 2

\* Location 2 has one court with a slot an earlier search task stored, and
\* the provider has nothing new for it.
InitOverlap ==
    WatchInit({Court(1, ProperName(1), 1, 1, TRUE, FALSE),
               Court(2, ProperName(1), 2, 1, TRUE, FALSE)},
              {Availability(1, 2, 1, 1, EndTime(1, 1), 1, "25 EUR", TRUE)})

\* a run up to the candidate query
BeginRun(o, http_error, raw) ==
    /\ o \in orders
    /\ Cardinality(runs) < MaxRuns
    /\ LET p == parse_availability(courts, 1, raw, 1, <<>>)
           stored == ~ http_error /\ p.ok
           r == IF stored
                THEN bulk_add_availabilities(slots, nextSlotId, p.avs)
                ELSE [rows |-> slots, nid |-> nextSlotId, stats |-> NoStats]
           cands == get_notification_candidates(o, courts, r.rows, notifs)
       IN /\ slots' = r.rows
          /\ nextSlotId' = r.nid
          /\ runs' = runs \cup
                 {[n |-> Cardinality(runs) + 1, order |-> o.id,
                   cands |-> {<<a.court_id, a.id>> : a \in cands},
                   unrecorded |-> {<<a.court_id, a.id>> : a \in
                       {x \in r.rows : MatchesOrder(o, x) /\ ~ Recorded(o, x)}}]}
    /\ UNCHANGED <<locations, courts, nextCourtId, sess, obsVars, taskVars, watchVars,
                   upsert, tick, probe>>

\* the rest of a run: one notification record for each of its candidates
FinishRun(r) ==
    /\ r \in runs
    /\ notifs' = create_notification_records(notifs, r.order, r.cands)
    /\ runs' = runs \ {r}
    /\ UNCHANGED <<storeVars, obsVars, taskVars, orders, wlog, upsert, tick, probe>>

NextOverlap ==
    \/ \E o \in orders, http_error \in BOOLEAN, raw \in WatchRaw :
          BeginRun(o, http_error, raw)
    \/ \E r \in runs : FinishRun(r)

SpecOverlap == InitOverlap /\ [][NextOverlap]_vars

\* C19: the candidates a run got from get_notification_candidates are
\* exactly the slots that matched its saved search at that moment and had no
\* notification record for it
C19_CandidatesExact == \A r \in runs : r.cands = r.unrecorded

MaxTicks == 2
Today == 1
TickErrors == {"none", "fetch", "notify"}

RECURSIVE AscendingIds(_)
AscendingIds(ids) ==
    IF ids = {} THEN <<>>
    ELSE LET m == CHOOSE x \in ids : \A y \in ids : x <= y
         IN <<m>> \o AscendingIds(ids \ {m})

\* the order as execute_search_order_task finds it at its turn
OrderAtTurn(oid) ==
    IF \E o \in orders : o.id = oid
    THEN LET o == CHOOSE x \in orders : x.id = oid
         IN [present |-> TRUE, is_active |-> o.is_active, date |-> o.date,
             last_check_at |-> o.last_check_at]
    ELSE [present |-> FALSE, is_active |-> FALSE, date |-> 0,
          last_check_at |-> 0]

\* check_active_search_orders up to the loop: the query of the active orders
\* dated today or later
TickSelect ==
    /\ tick.pc = "idle"
    /\ tick.n < MaxTicks
    /\ LET sel == {o.id : o \in {x \in orders : x.is_active /\ x.date >= Today}}
       IN tick' = [pc |-> "run", n |-> tick.n + 1, selected |-> sel,
                   queue |-> AscendingIds(sel), log |-> {}]
    /\ UNCHANGED <<storeVars, obsVars, taskVars, watchVars, upsert, runs, probe>>

\* one turn of the loop: execute_search_order_task for the next order
TickExecute(err, items) ==
    /\ tick.pc = "run"
    /\ tick.queue # <<>>
    /\ LET oid == Head(tick.queue)
           st == execute_search_order_task(
                     [courts |-> courts, rows |-> slots, ncid |-> nextCourtId,
                      nid |-> nextSlotId, orders |-> orders,
                      handed |-> wlog.handed,
                      handedAgain |-> wlog.handedAgain, last |-> NoOutcome],
                     oid, err, items, tick.n)
           after == {o.last_check_at : o \in {x \in st.orders : x.id = oid}}
       IN /\ courts' = st.courts
          /\ slots' = st.rows
          /\ nextCourtId' = st.ncid
          /\ nextSlotId' = st.nid
          /\ orders' = st.orders
          /\ wlog' = [wlog EXCEPT !.handed = st.handed,
                                  !.handedAgain = st.handedAgain]
          /\ tick' = [tick EXCEPT
                 !.queue = IF Escapes(err) /\ st.last.ran THEN <<>>
                           ELSE Tail(tick.queue),
                 !.log = @ \cup {[pos |-> Cardinality(tick.log) + 1,
                                  order |-> oid,
                                  err |-> IF st.last.ran THEN err ELSE "none",
                                  turn |-> OrderAtTurn(oid),
                                  after |-> after, out |-> st.last]}]
    /\ UNCHANGED <<locations, sess, obsVars, taskVars, notifs, upsert, runs, probe>>

\* check_active_search_orders after the loop
TickEnd ==
    /\ tick.pc = "run"
    /\ tick.queue = <<>>
    /\ tick' = [tick EXCEPT !.pc = "idle"]
    /\ UNCHANGED <<storeVars, obsVars, taskVars, watchVars, upsert, runs, probe>>

\* PUT /api/search-orders/<id>: the owner deactivates the order or moves its
\* date, here to the day before today
UpdateSearchOrder(oid, field) ==
    /\ \E o \in orders :
          /\ o.id = oid
          /\ orders' = (orders \ {o}) \cup
                 {IF field = "is_active" THEN [o EXCEPT !.is_active = FALSE]
                  ELSE [o EXCEPT !.date = Today - 1]}
          /\ orders' # orders
    /\ UNCHANGED <<storeVars, obsVars, taskVars, notifs, wlog, otherVars>>

\* DELETE /api/search-orders/<id>
DeleteSearchOrder(oid) ==
    /\ \E o \in orders : o.id = oid /\ orders' = orders \ {o}
    /\ UNCHANGED <<storeVars, obsVars, taskVars, notifs, wlog, otherVars>>

NextTick ==
    \/ TickSelect
    \/ \E err \in TickErrors, items \in LegacyLists : TickExecute(err, items)
    \/ TickEnd
    \/ \E oid \in {1, 2}, field \in {"is_active", "date"} :
          UpdateSearchOrder(oid, field)
    \/ \E oid \in {1, 2} : DeleteSearchOrder(oid)

SpecTick == InitWatch /\ [][NextTick]_vars

\* the order of a turn existed and was active
Runnable(e) == e.turn.present /\ e.turn.is_active

ServiceOps == {"start_task", "update_task_progress", "complete_task",
               "fail_task", "cancel_task"}

\* the row a service method leaves for the row t it found
Applied(op, t) ==
    CASE op = "start_task" -> start_task(t)
      [] op = "update_task_progress" -> update_task_progress(t, 5, 0, None)
      [] op = "complete_task" -> complete_task(t, NoResults)
      [] op = "fail_task" -> fail_task(t)
      [] op = "cancel_task" -> cancel_task(t)

InitService ==
    /\ courts = InitCourts
    /\ slots = {}
    /\ nextSlotId = 1
    /\ nextCourtId = Cardinality(courts) + 1
    /\ sess = [s \in Sessions |-> IdleSession]
    /\ locations = Locations
    /\ rlog = [raw |-> <<>>, stats |-> NoStats, allNew |-> FALSE, n |-> 0,
               repeat |-> FALSE, unchanged |-> FALSE,
               prevStats |-> NoStats, prevAllNew |-> FALSE]
    /\ mlog = NoMerge
    /\ TaskIdle
    /\ WatchIdle
    /\ RaceIdle

\* POST /api/tasks/search/start up to create_task
CreateTask(u, p) ==
    /\ ~ task.exists
    /\ task' = create_task(u, p)
    /\ params' = p
    /\ probe' = [op |-> "create_task", task_id |-> task'.task_id, user |-> u,
                 answer |-> "task", before |-> task]
    /\ UNCHANGED <<storeVars, obsVars, watchVars, cache, w, sessionFailed,
                   creq, plog, olog, upsert, runs, tick>>

\* one call of a method of TaskService with the task id `id`
ServiceCall(op, id) ==
    /\ LET t == get_task(task, id)
           r == Applied(op, t)
       IN /\ task' = IF t.exists THEN r ELSE task
          /\ probe' = [op |-> op, task_id |-> id, user |-> "none",
                       answer |-> IF t.exists THEN "task" ELSE "None",
                       before |-> task]
    /\ UNCHANGED <<storeVars, obsVars, watchVars, cache, params, w,
                   sessionFailed, creq, plog, olog, upsert, runs, tick>>

\* GET /api/tasks/search/<task_id>
GetSearchTaskStatus(u, id) ==
    /\ LET t == get_task_for_user(task, id, u)
       IN probe' = [op |-> "status", task_id |-> id, user |-> u,
                    answer |-> IF t.exists THEN "200" ELSE "404 Task not found",
                    before |-> task]
    /\ UNCHANGED <<storeVars, obsVars, watchVars, taskVars, upsert, runs, tick>>

\* POST /api/tasks/search/<task_id>/cancel, without another request between
\* its read and its write
CancelSearchTask(u, id) ==
    /\ LET t == get_task_for_user(task, id, u)
       IN IF ~ t.exists
          THEN /\ probe' = [op |-> "cancel", task_id |-> id, user |-> u,
                            answer |-> "404 Task not found", before |-> task]
               /\ task' = task
          ELSE IF t.status \notin {"pending", "running"}
          THEN /\ probe' = [op |-> "cancel", task_id |-> id, user |-> u,
                            answer |-> "400", before |-> task]
               /\ task' = task
          ELSE /\ probe' = [op |-> "cancel", task_id |-> id, user |-> u,
                            answer |-> "200", before |-> task]
               /\ task' = cancel_task(get_task(task, id))
    /\ UNCHANGED <<storeVars, obsVars, watchVars, cache, params, w,
                   sessionFailed, creq, plog, olog, upsert, runs, tick>>

NextService ==
    \/ \E u \in Users, p \in TaskParams : CreateTask(u, p)
    \/ \E op \in ServiceOps, id \in TaskIds : ServiceCall(op, id)
    \/ \E u \in Users, id \in TaskIds : GetSearchTaskStatus(u, id)
    \/ \E u \in Users, id \in TaskIds : CancelSearchTask(u, id)

SpecService == InitService /\ [][NextService]_vars

\* the task the last call named existed before the call
Named == probe.before.exists /\ probe.before.task_id = probe.task_id

\* C22: the status and the cancel route find a task only for its owner; for
\* any other user they answer 'Task not found' and leave the task as it was
C22_OwnerOnly ==
    probe.op \in {"status", "cancel"} =>
        /\ probe.answer # "404 Task not found"
              <=> (Named /\ probe.before.user_id = probe.user)
        /\ probe.answer = "404 Task not found" => task = probe.before

\* another user asked to cancel a running or pending task and was refused
C22_Witness ==
    /\ probe.op = "cancel"
    /\ Named
    /\ probe.before.user_id # probe.user
    /\ probe.before.status \in {"pending", "running"}
    /\ probe.answer = "404 Task not found"
    /\ task = probe.before

\* C30: a method of the task service called with an id no task has returns
\* None and leaves the table of tasks as it was
C30_NotFoundIsNone ==
    (probe.op \in ServiceOps /\ ~ Named) =>
        /\ probe.answer = "None"
        /\ task = probe.before

\* cancel_task was called with an unknown id while a task was running
C30_Witness ==
    /\ probe.op = "cancel_task"
    /\ ~ Named
    /\ probe.before.exists
    /\ probe.before.status = "running"
    /\ probe.answer = "None"

\* ------------------------------------------- the queries over stored slots
\* AvailabilityService.get_available_courts_in_time_range: the ids of the
\* rows it lists; the end of a slot is the time of day of start + duration,
\* which datetime.time() takes modulo one day; indoor is None, True or False
get_available_courts_in_time_range(cs, rows, date, start_time_range, end_time_range, duration, indoor) ==
    {a.id : a \in {x \in rows :
        /\ x.date = date
        /\ x.available
        /\ x.duration = duration
        /\ x.start_time >= start_time_range
        /\ x.start_time <= end_time_range
        /\ (indoor # "None" =>
               \E c \in cs : c.id = x.court_id
                                /\ c.indoor = (indoor = "True"))
        /\ EndTime(x.start_time, duration) <= end_time_range
        /\ \E c \in cs : c.id = x.court_id}}

\* SearchOrderService.match_availabilities_to_search_order: the ids of the
\* rows it lists; slot_end_time is computed from the order, not from the row
match_availabilities_to_search_order(o, cs, rows) ==
    {a.id : a \in {x \in rows :
        /\ x.date = o.date
        /\ x.available
        /\ x.duration = o.duration_minutes
        /\ x.start_time >= o.start_time
        /\ x.start_time <= o.end_time
        /\ EndTime(o.start_time, o.duration_minutes) <= o.end_time
        /\ \E c \in cs :
              /\ c.id = x.court_id
              /\ (o.court_type = "indoor" => c.indoor)
              /\ (o.court_type = "outdoor" => FALSE)
              /\ (o.court_config = "single" => FALSE)
              /\ (o.court_config = "double" => c.double)}}

\* the saved searches create_search_order can have stored: any window, the
\* exact form start = end included
QueryOrders ==
    {[SearchOrder(1, e, ct, "all", TRUE) EXCEPT !.duration_minutes = d] :
        e \in {1, 2}, ct \in {"all", "indoor"}, d \in Durations}
QueryStarts == 0..(DayLen - 1)
RangeStarts == {0, 1}
RangeEnds == {2, DayLen - 1}

\* a table of two slots, one of any court, date, start and duration, and one
\* saved search
InitQuery ==
    \E c \in MatchCourts, d \in ProbeDates, st \in QueryStarts,
       dur \in Durations, av \in BOOLEAN, o \in QueryOrders :
        LET first == Availability(1, c.id, d, st, EndTime(st, dur), dur,
                                  "25 EUR", av)
            other == Availability(2, 2, 1, 1, EndTime(1, 1), 1, "25 EUR", TRUE)
        IN /\ NaturalKey(first) # NaturalKey(other)
           /\ courts = MatchCourts
           /\ slots = {first, other}
           /\ nextSlotId = 3
           /\ nextCourtId = Cardinality(MatchCourts) + 1
           /\ sess = [s \in Sessions |-> IdleSession]
           /\ locations = Locations
           /\ rlog = [raw |-> <<>>, stats |-> NoStats, allNew |-> FALSE,
                      n |-> 0, repeat |-> FALSE, unchanged |-> FALSE,
                      prevStats |-> NoStats, prevAllNew |-> FALSE]
           /\ mlog = NoMerge
           /\ TaskIdle
           /\ orders = {o}
           /\ notifs = {}
           /\ wlog = NoWatch
           /\ RaceIdle

\* a call of get_available_courts_in_time_range
GetAvailableCourtsInTimeRange(date, sr, er, dur, indoor) ==
    /\ probe' = [op |-> "time_range", date |-> date, start_time_range |-> sr,
                 end_time_range |-> er, duration |-> dur, indoor |-> indoor,
                 answer |-> get_available_courts_in_time_range(
                                courts, slots, date, sr, er, dur, indoor)]
    /\ UNCHANGED <<storeVars, obsVars, taskVars, watchVars, upsert, runs, tick>>

\* a call of match_availabilities_to_search_order
MatchAvailabilitiesToSearchOrder(oid) ==
    /\ probe' = [op |-> "match", order |-> oid,
                 answer |-> IF \E o \in orders : o.id = oid
                            THEN match_availabilities_to_search_order(
                                     CHOOSE o \in orders : o.id = oid,
                                     courts, slots)
                            ELSE {}]
    /\ UNCHANGED <<storeVars, obsVars, taskVars, watchVars, upsert, runs, tick>>

\* a call of get_notification_candidates
GetNotificationCandidates(oid) ==
    /\ probe' = [op |-> "candidates", order |-> oid,
                 answer |-> IF \E o \in orders : o.id = oid
                            THEN {a.id : a \in get_notification_candidates(
                                     CHOOSE o \in orders : o.id = oid,
                                     courts, slots, notifs)}
                            ELSE {}]
    /\ UNCHANGED <<storeVars, obsVars, taskVars, watchVars, upsert, runs, tick>>

NextQuery ==
    \/ \E sr \in RangeStarts, er \in RangeEnds, dur \in Durations,
          indoor \in {"None", "True", "False"} :
           GetAvailableCourtsInTimeRange(1, sr, er, dur, indoor)
    \/ \E oid \in {1, 2} : MatchAvailabilitiesToSearchOrder(oid)
    \/ \E oid \in {1, 2} : GetNotificationCandidates(oid)

SpecQuery == InitQuery /\ [][NextQuery]_vars

\* C24: a call of get_available_courts_in_time_range without the indoor
\* filter returns exactly the available slots of the date and the duration
\* whose start is at or after the start of the range and whose start plus
\* duration is at or before the end of the range
C24_TimeRangeExact ==
    (probe.op = "time_range" /\ probe.indoor = "None") =>
        probe.answer =
            {a.id : a \in {x \in slots :
                /\ x.available
                /\ x.date = probe.date
                /\ x.duration = probe.duration
                /\ x.start_time >= probe.start_time_range
                /\ x.start_time + probe.duration <= probe.end_time_range}}

\* the saved search a call was about
ProbedOrder == CHOOSE o \in orders : o.id = probe.order

\* C25: for a saved search whose window starts and ends at the same time T,
\* match_availabilities_to_search_order and get_notification_candidates
\* return the available slots of its date that start at T with its duration
C25_ExactTimeMatch ==
    (/\ probe.op \in {"match", "candidates"}
     /\ \E o \in orders : o.id = probe.order
     /\ ProbedOrder.start_time = ProbedOrder.end_time
     /\ ProbedOrder.court_type = "all") =>
        probe.answer =
            {a.id : a \in {x \in slots :
                /\ x.available
                /\ x.date = ProbedOrder.date
                /\ x.start_time = ProbedOrder.start_time
                /\ x.duration = ProbedOrder.duration_minutes}}

\* ------------------------------------------------- the metadata refreshes
\* one entry of the club's resources: resourceId, name and features
ClubNames(r) == {ProperName(r), ProperName(r + Cardinality(Resources))}
CourtInfos ==
    UNION {[resourceId : {r}, name : ClubNames(r),
            features : {{}, {"indoor", "double"}}] : r \in Resources}
Listings ==
    {<<>>} \cup {<<x>> : x \in CourtInfos}
           \cup {<<x, y>> : x \in {z \in CourtInfos : z.resourceId = 1},
                            y \in {z \in CourtInfos : z.resourceId = 2}}

\* CourtService.add_or_update_court: the court of the resource at the
\* location is updated in place, else the new row is added
add_or_update_court_recreate(cs, ncid, court) ==
    LET ex == get_court_by_resource_and_location(cs, court.resource_id,
                                                 court.location_id)
    IN [courts |-> (cs \ ex) \cup {[court EXCEPT !.id = ncid]},
        ncid |-> ncid + 1]
add_or_update_court(cs, ncid, court) ==
    LET ex == get_court_by_resource_and_location(cs, court.resource_id,
                                                 court.location_id)
    IN IF ex # {}
       THEN LET e == CHOOSE x \in ex : \A y \in ex : x.id <= y.id
            IN [courts |-> (cs \ {e}) \cup
                           {[e EXCEPT !.name = court.name,
                                      !.indoor = court.indoor,
                                      !.double = court.double]},
                ncid |-> ncid]
       ELSE [courts |-> cs \cup {[court EXCEPT !.id = ncid]},
             ncid |-> ncid + 1]

\* PlaytomicProvider._update_or_create_court
update_or_create_court(cs, ncid, court_info, loc) ==
    add_or_update_court(cs, ncid,
        Court(0, court_info.name, loc, court_info.resourceId,
              "indoor" \in court_info.features,
              "double" \in court_info.features))

\* PlaytomicProvider.add_location_by_slug, the loop over the resources
RECURSIVE update_or_create_courts(_, _, _, _)
update_or_create_courts(cs, ncid, resources, i) ==
    IF i > Len(resources) THEN [courts |-> cs, ncid |-> ncid]
    ELSE LET r == update_or_create_court(cs, ncid, resources[i], 1)
         IN update_or_create_courts(r.courts, r.ncid, resources, i + 1)

\* what PadelMateService.add_location_by_slug is given for a resource
PadelMateInfo(r) ==
    [resourceId |-> r, name |-> ProperName(r),
     features |-> (IF ClubIndoor(r) THEN {"indoor"} ELSE {})
                  \cup (IF ClubDouble(r) THEN {"double"} ELSE {})]

\* the tables of location 1 that fetches and refreshes leave behind: for
\* resource 1 a named court (with or without its resource id), a placeholder
\* or both, each with one slot; resource 2 has no court yet
CourtTable(k1, res1, st) ==
    LET named == Court(1, ProperName(1), 1, res1, FALSE, FALSE)
        holder == Court(2, UuidName(1), 1, NoRes, FALSE, FALSE)
        cs == (IF k1 \in {"named", "both"} THEN {named} ELSE {})
              \cup (IF k1 \in {"placeholder", "both"} THEN {holder} ELSE {})
    IN [courts |-> cs,
        rows |-> {Availability(c.id, c.id, 1, IF c = holder THEN st ELSE 1,
                               EndTime(IF c = holder THEN st ELSE 1, 1), 1,
                               "25 EUR", TRUE) : c \in cs}]

InitCourtsTable ==
    \E k1 \in {"none", "named", "placeholder", "both"}, res1 \in {NoRes, 1},
       st \in StartTimes :
        LET t == CourtTable(k1, res1, st)
        IN /\ courts = t.courts
           /\ slots = t.rows
           /\ nextSlotId = 3
           /\ nextCourtId = 3
           /\ sess = [s \in Sessions |-> IdleSession]
           /\ locations = Locations
           /\ rlog = [raw |-> <<>>, stats |-> NoStats, allNew |-> FALSE,
                      n |-> 0, repeat |-> FALSE, unchanged |-> FALSE,
                      prevStats |-> NoStats, prevAllNew |-> FALSE]
           /\ mlog = NoMerge
           /\ TaskIdle
           /\ WatchIdle
           /\ RaceIdle

\* PlaytomicProvider.add_location_by_slug for a club that lists `resources`
PlaytomicAddLocationBySlug(resources) ==
    LET r == update_or_create_courts(courts, nextCourtId, resources, 1)
    IN /\ r.ncid <= MaxCourtId + 1
       /\ courts' = r.courts
       /\ nextCourtId' = r.ncid
       /\ probe' = [op |-> "refresh", path |-> "playtomic",
                    resources |-> resources,
                    before |-> [courts |-> courts, slots |-> slots,
                                notifs |-> notifs]]
       /\ UNCHANGED <<locations, slots, nextSlotId, sess, obsVars, taskVars, watchVars,
                      upsert, runs, tick>>

\* PadelMateService.add_location_by_slug for a club that lists `listed`
PadelMateAddLocationBySlug(listed) ==
    LET f == RefreshCourts(courts, nextCourtId, listed)
        m == MergePlaceholders(f.courts, slots, listed)
        seq == IF listed = {} THEN <<>>
               ELSE IF listed = Resources
                    THEN <<PadelMateInfo(1), PadelMateInfo(2)>>
                    ELSE <<PadelMateInfo(CHOOSE r \in listed : TRUE)>>
    IN /\ f.ncid <= MaxCourtId + 1
       /\ uq_availability_slot(m.rows)
       /\ courts' = m.courts
       /\ slots' = m.rows
       /\ nextCourtId' = f.ncid
       /\ notifs' = MergeNotifications(notifs, f.courts, slots, listed)
       /\ probe' = [op |-> "refresh", path |-> "padelmate", resources |-> seq,
                    before |-> [courts |-> courts, slots |-> slots,
                                notifs |-> notifs]]
       /\ locations' = locations \cup {1}
       /\ UNCHANGED <<nextSlotId, sess, obsVars, taskVars, orders, wlog,
                      upsert, runs, tick>>

NextCourts ==
    \/ \E resources \in Listings : PlaytomicAddLocationBySlug(resources)
    \/ \E listed \in SUBSET Resources : PadelMateAddLocationBySlug(listed)

SpecCourts == InitCourtsTable /\ [][NextCourts]_vars

\* the court a refresh finds for a listed resource: by resource id and
\* location, or by the listed name and else by the placeholder name
ExistingCourt(path, cs, info) ==
    IF path = "playtomic"
    THEN get_court_by_resource_and_location(cs, info.resourceId, 1)
    ELSE LET byName == {c \in cs : c.location_id = 1 /\ c.name = info.name}
         IN IF byName # {} THEN byName
            ELSE {c \in cs : /\ c.location_id = 1
                             /\ c.name = UuidName(info.resourceId)}

PersistedKeys(rows) == {NaturalKey(a) : a \in rows}

\* C29: every bulk_add_availabilities call returns added + updated = total =
\* the number of raw slots it was given, and added is the number of natural
\* keys that were not persisted before the call and are persisted after it
C29_CountsAddUp ==
    [][LET stats == rlog'.stats
       IN /\ stats.added + stats.updated = stats.total
          /\ stats.total = Len(rlog'.raw)
          /\ stats.added = Cardinality(PersistedKeys(slots')
                                           \ PersistedKeys(slots))]_vars

\* a call was given the same new slot twice: one added, one updated
C29_Witness ==
    /\ Len(rlog.raw) = 2
    /\ rlog.raw[1].resource = rlog.raw[2].resource
    /\ rlog.raw[1].date = rlog.raw[2].date
    /\ rlog.raw[1].start = rlog.raw[2].start
    /\ rlog.raw[1].duration = rlog.raw[2].duration
    /\ rlog.stats = [added |-> 1, updated |-> 1, total |-> 2]

\* --------------------------------------------------- the counters of a task
\* C38: in every state of a task its progress is between 0 and 100 and its
\* processed_locations is between 0 and its total_locations
C38_CountersInRange ==
    task.exists =>
        /\ 0 <= task.progress
        /\ task.progress <= 100
        /\ 0 <= task.processed_locations
        /\ task.processed_locations <= task.total_locations

\* the worker has written the progress of the first of two live locations
C38_Witness ==
    /\ task.exists
    /\ task.total_locations = 2
    /\ task.processed_locations = 1
    /\ task.progress = 45

\* ------------------------------------------------ the cache writes of a task
\* C37: a cache entry written by the task (performed_at = Now) belongs to a
\* location whose fetch and reconcile returned without raising; a location
\* whose fetch raised has no entry of this task
C37_CacheOnlyAfterFetch ==
    \A r \in cache :
        r.performed_at = Now =>
            /\ r.location_id \in w.fetched
            /\ r.location_id \notin w.raised
            /\ r.date = params.date

\* one location's fetch raised and its older entry is as it was, while the
\* other location got an entry of this task
C37_Witness ==
    /\ \E l \in w.raised : \E r \in cache :
          r.location_id = l /\ r.performed_at < Now
    /\ \E r \in cache : r.performed_at = Now

\* ------------------------------------------------------ the size of an alert
\* the slots of two named courts of location 1 that earlier fetches stored:
\* slot k is on court 1 or 2 and starts at 1, 1, 2, 2, 3, 3, ...
MaxAlertSlots == 6
AlertSlot(k) ==
    Availability(k, ((k - 1) % 2) + 1, 1, ((k - 1) \div 2) + 1,
                 ((k - 1) \div 2) + 2, 1, "25 EUR", TRUE)

\* two saved searches on location 1; the first takes any court that starts
\* in 1..3
InitAlert ==
    \E n \in {0, MaxAlertSlots - 1, MaxAlertSlots}, e \in {1, 3} :
        /\ courts = {Court(1, ProperName(1), 1, 1, TRUE, FALSE),
                     Court(2, ProperName(2), 1, 2, FALSE, FALSE)}
        /\ slots = {AlertSlot(k) : k \in 1..n}
        /\ nextSlotId = n + 1
        /\ nextCourtId = 3
        /\ sess = [s \in Sessions |-> IdleSession]
        /\ locations = Locations
        /\ rlog = [raw |-> <<>>, stats |-> NoStats, allNew |-> FALSE, n |-> 0,
                   repeat |-> FALSE, unchanged |-> FALSE,
                   prevStats |-> NoStats, prevAllNew |-> FALSE]
        /\ mlog = NoMerge
        /\ TaskIdle
        /\ orders = {SearchOrder(1, 3, "all", "all", TRUE),
                     SearchOrder(2, e, "indoor", "all", TRUE)}
        /\ notifs = {}
        /\ wlog = NoWatch
        /\ RaceIdle

\* scheduler.execute_search_order_task as one scheduler job: all_courts goes
\* to email_service.send_court_found_notification as it was collected
ExecuteSearchOrderTask(oid, err, items) ==
    \E st \in {execute_search_order_task(
                  [courts |-> courts, rows |-> slots, ncid |-> nextCourtId,
                   nid |-> nextSlotId, orders |-> orders,
                   handed |-> wlog.handed, handedAgain |-> wlog.handedAgain,
                   last |-> NoOutcome],
                  oid, err, items, 1)} :
       /\ courts' = st.courts
       /\ slots' = st.rows
       /\ nextCourtId' = st.ncid
       /\ nextSlotId' = st.nid
       /\ orders' = st.orders
       /\ wlog' = [wlog EXCEPT !.handed = st.handed,
                               !.handedAgain = st.handedAgain]
       /\ st.ncid <= MaxCourtId + 1
       /\ probe' = [op |-> "execute_search_order_task", order |-> oid,
                    sent |-> st.last.handed # {},
                    courts_found |-> st.last.handed]
       /\ UNCHANGED <<locations, upsert, runs, tick, sess, obsVars, taskVars, notifs>>

\* perform_court_search, the filters of its result query
CourtSearchMatches(q, cs, rows) ==
    {a \in rows : \E c \in cs :
        /\ c.id = a.court_id
        /\ a.date = q.date
        /\ a.start_time >= q.start_time
        /\ a.start_time <= q.end_time
        /\ a.duration = q.duration_minutes
        /\ \E k \in 1..Len(q.location_ids) : q.location_ids[k] = c.location_id
        /\ a.available
        /\ (q.court_type = "indoor" => c.indoor)
        /\ (q.court_type = "outdoor" => ~ c.indoor)
        /\ (q.court_config = "single" => ~ c.double)
        /\ (q.court_config = "double" => c.double)}

\* perform_court_search, the grouping loop over the rows of the query: for a
\* row whose court has a UUID name the club page is fetched, and when the page
\* lists the resource the court takes the listed name and is committed
ResolveCourtNames(cs, matched, club) ==
    LET looked == {c \in cs : /\ IsUuidName(c.name)
                              /\ \E a \in matched : a.court_id = c.id}
        resolve(c) == IF c \in looked /\ c.name[2] \in club
                      THEN [c EXCEPT !.name = ProperName(c.name[2])]
                      ELSE c
    IN [courts |-> {resolve(c) : c \in cs},
        lookups |-> {c.id : c \in looked}]

\* perform_court_search, one metadata refresh of location 1 on the state
\* v = [courts, rows, ncid, nid, cache, ok]
SearchRefresh(v, listed) ==
    LET merged(f) ==
            LET m == MergePlaceholders(f.courts, v.rows, listed)
            IN [v EXCEPT !.courts = m.courts, !.rows = m.rows, !.ncid = f.ncid,
                         !.ok = v.ok /\ uq_availability_slot(m.rows)]
    IN Once(merged, RefreshCourts(v.courts, v.ncid, listed))

\* perform_court_search, fetch_and_store_all_availability
SearchStore(v, items) ==
    LET stored(r) ==
            [v EXCEPT !.courts = r.courts, !.rows = r.rows, !.ncid = r.ncid,
                      !.nid = r.nid,
                      !.ok = v.ok /\ uq_availability_slot(r.rows)]
    IN Once(stored, store_internal_availabilities(v.courts, v.rows, v.ncid,
                                                  v.nid, items))

\* perform_court_search, the cache record, the result query and the grouping
SearchResult(v, q, items, club) ==
    LET rq == [date |-> q.date, location_id |-> q.location_ids,
               start_time |-> q.start_time,
               duration_minutes |-> q.duration_minutes,
               court_type |-> q.court_type]
        grouped(matched) ==
            LET g == ResolveCourtNames(v.courts, matched, club)
            IN [ok |-> v.ok, courts |-> g.courts, rows |-> v.rows,
                ncid |-> v.ncid, nid |-> v.nid,
                cache |-> create_search_request_record(
                              v.cache, generate_search_hash_full(rq), rq, Now,
                              TRUE, Len(items)),
                results |-> matched,
                matcher |-> [lookups |-> g.lookups, before |-> v.courts,
                             after |-> g.courts]]
    IN Once(grouped, CourtSearchMatches(q, v.courts, v.rows))

\* perform_court_search with force_live on the state st = [courts, rows, ncid,
\* nid, cache, ok]: metadata refresh, fetch_and_store_all_availability,
\* metadata refresh, cache record, result query and grouping
perform_court_search(st, q, listed, items, club) ==
    LET refresh(v) == SearchRefresh(v, listed)
        store(v) == SearchStore(v, items)
        result(v) == SearchResult(v, q, items, club)
    IN Once(result, Once(refresh, Once(store, Once(refresh, st))))

\* execute_search_order, the cut of courts_found: the first 5 slots in the
\* order of the results, court by court as the query met them
CourtsFound(results) ==
    LET first(a) == CHOOSE n \in {b.id : b \in {x \in results : x.court_id = a.court_id}} :
                        \A b \in results : b.court_id = a.court_id => n <= b.id
        before(b, a) == \/ first(b) < first(a)
                        \/ first(b) = first(a) /\ b.id < a.id
    IN {a \in results : Cardinality({b \in results : before(b, a)}) < 5}

\* routes.search_orders.execute_search_order for a club page that lists
\* `listed` during the refreshes and `club` during the grouping
ExecuteSearchOrder(oid, listed, items, club) ==
    \E o \in orders :
        /\ o.id = oid
        /\ \E s \in {perform_court_search(
                        [courts |-> courts, rows |-> slots, ncid |-> nextCourtId,
                         nid |-> nextSlotId, cache |-> cache, ok |-> TRUE],
                        o, listed, items, club)} :
              /\ s.ok
              /\ s.ncid <= MaxCourtId + 1
              /\ courts' = s.courts
              /\ slots' = s.rows
              /\ nextCourtId' = s.ncid
              /\ nextSlotId' = s.nid
              /\ cache' = s.cache
              /\ orders' = (orders \ {o}) \cup {[o EXCEPT !.last_check_at = 1]}
              /\ probe' = [op |-> "execute_search_order", order |-> oid,
                           sent |-> s.results # {},
                           courts_found |-> {a.id : a \in CourtsFound(s.results)},
                           matcher |-> s.matcher]
        /\ UNCHANGED <<locations, upsert, runs, tick, sess, obsVars, task, params, w,
                       sessionFailed, creq, plog, olog, notifs, wlog>>

NextAlert ==
    \/ \E oid \in 1..2, err \in {"none", "fetch"}, items \in LegacyLists :
          ExecuteSearchOrderTask(oid, err, items)
    \/ \E oid \in 1..2, listed \in {{}, Resources}, items \in LegacyLists,
          club \in {{}, {1}} :
          ExecuteSearchOrder(oid, listed, items, club)

SpecAlert == InitAlert /\ [][NextAlert]_vars

C33_OnlyFetchedStayAvailable ==
    [][\A a \in slots' :
          a.available =>
              \E i \in 1..Len(rlog'.raw) :
                  /\ a.date = rlog'.raw[i].date
                  /\ a.start_time = rlog'.raw[i].start
                  /\ a.duration = rlog'.raw[i].duration
                  /\ \E c \in courts :
                        /\ c.id = a.court_id
                        /\ c.resource_id = rlog'.raw[i].resource]_vars

\* ------------------------------------------- notified slots under a merge
\* location 1 after a legacy fetch: resource 1 has a placeholder court with a
\* slot, with or without the named court beside it, and one saved search
InitMerge ==
    \E k1 \in {"placeholder", "both"}, res1 \in {NoRes, 1}, st \in StartTimes :
        LET t == CourtTable(k1, res1, st)
        IN /\ courts = t.courts
           /\ slots = t.rows
           /\ nextSlotId = 3
           /\ nextCourtId = 3
           /\ sess = [s \in Sessions |-> IdleSession]
           /\ locations = Locations
           /\ rlog = [raw |-> <<>>, stats |-> NoStats, allNew |-> FALSE,
                      n |-> 0, repeat |-> FALSE, unchanged |-> FALSE,
                      prevStats |-> NoStats, prevAllNew |-> FALSE]
           /\ mlog = NoMerge
           /\ TaskIdle
           /\ orders = {SearchOrder(1, 2, "all", "all", TRUE)}
           /\ notifs = {}
           /\ wlog = NoWatch
           /\ RaceIdle

NextMerge ==
    \/ \E o \in orders, http_error \in BOOLEAN, raw \in WatchRaw :
          FetchAndSearchAvailability(o, http_error, raw)
    \/ \E listed \in SUBSET Resources : PadelMateAddLocationBySlug(listed)

SpecMerge == InitMerge /\ [][NextMerge]_vars

\* the slots the last refresh moved to another court
MovedSlots ==
    IF probe.op # "refresh" THEN {}
    ELSE {a \in slots : \E b \in probe.before.slots :
                            b.id = a.id /\ b.court_id # a.court_id}

\* C34: a slot with a notification record for a saved search that a merge
\* moved to the named court still has the record after the merge, and no
\* later run returns it again as a candidate for that saved search
C34_MovedSlotStaysNotified ==
    \A a \in MovedSlots :
        /\ \A n \in probe.before.notifs :
              n.availability_id = a.id =>
                  \E m \in notifs : /\ m.search_order_id = n.search_order_id
                                    /\ m.availability_id = a.id
        /\ ~ \E q \in wlog.candAgain : q[2] = a.id

\* --------------------------------------- two search tasks for one location
\* Each POST of a search starts run_search_task in a thread of its own; the
\* two tasks below search location 1 for date 1 without force_live.
RaceParams ==
    [location_ids |-> <<1>>, force_live |-> FALSE, court_type |-> "all",
     court_config |-> "all", date |-> 1, start_time |-> 1, end_time |-> 2,
     duration_minutes |-> 1]

\* the cache entry an earlier live fetch of location 1 left, if any
InitTasks ==
    \E kind \in {"none", "exact", "younger", "older"} :
        /\ courts = TaskCourts
        /\ slots = {}
        /\ nextSlotId = 1
        /\ nextCourtId = Cardinality(Locations) + 1
        /\ sess = [s \in Sessions |-> IdleSession]
        /\ locations = Locations
        /\ rlog = [raw |-> <<>>, stats |-> NoStats, allNew |-> FALSE, n |-> 0,
                   repeat |-> FALSE, unchanged |-> FALSE,
                   prevStats |-> NoStats, prevAllNew |-> FALSE]
        /\ mlog = NoMerge
        /\ NoTaskRunning
        /\ cache = IF kind = "none" THEN {}
                   ELSE {SearchRequest(1, generate_search_hash(OldSearch(kind, 1)),
                                       OldSearch(kind, 1), OldAt(kind), TRUE, 1)}
        /\ WatchIdle
        /\ RaceIdle

\* a search is submitted and its thread starts
SubmitSearch ==
    /\ Cardinality(runs) < MaxRuns
    /\ runs' = runs \cup {[n |-> Cardinality(runs) + 1, pc |-> "check",
                           fetched |-> FALSE]}
    /\ UNCHANGED <<storeVars, obsVars, taskVars, watchVars, upsert, tick, probe>>

\* run_search_task, the first loop: the location is live unless a recent
\* live search is recorded for its hash
CheckRecent(r) ==
    /\ r \in runs
    /\ r.pc = "check"
    /\ runs' = (runs \ {r}) \cup
          {[r EXCEPT !.pc = IF live_locations(cache, RaceParams, 1, <<>>) = <<>>
                            THEN "match" ELSE "fetch"]}
    /\ UNCHANGED <<storeVars, obsVars, taskVars, watchVars, upsert, tick, probe>>

\* run_search_task, the fetch loop: the provider call and the reconcile
FetchAndStore(r, http_error, raw) ==
    /\ r \in runs
    /\ r.pc = "fetch"
    /\ LET p == parse_availability(courts, 1, raw, 1, <<>>)
           b == bulk_add_availabilities(slots, nextSlotId, p.avs)
           stored == ~ http_error /\ p.ok
       IN /\ IF stored
             THEN /\ slots' = b.rows
                  /\ nextSlotId' = b.nid
             ELSE UNCHANGED <<locations, slots, nextSlotId>>
          /\ runs' = (runs \ {r}) \cup
                {[r EXCEPT !.pc = IF stored THEN "record" ELSE "match",
                           !.fetched = ~ http_error]}
    /\ UNCHANGED <<locations, courts, nextCourtId, sess, obsVars, taskVars, watchVars,
                   upsert, tick, probe>>

\* run_search_task, the cache record after the reconcile
RecordSearch(r) ==
    /\ r \in runs
    /\ r.pc = "record"
    /\ cache' = create_search_request_record(
                    cache, generate_search_hash(SearchOf(RaceParams, 1)),
                    SearchOf(RaceParams, 1), Now, TRUE, 1)
    /\ runs' = (runs \ {r}) \cup {[r EXCEPT !.pc = "match"]}
    /\ UNCHANGED <<storeVars, obsVars, watchVars, upsert, tick, probe, task,
                   params, w, sessionFailed, creq, plog, olog>>

\* run_search_task, the result query and complete_task
FinishSearch(r) ==
    /\ r \in runs
    /\ r.pc = "match"
    /\ runs' = (runs \ {r}) \cup {[r EXCEPT !.pc = "done"]}
    /\ UNCHANGED <<storeVars, obsVars, taskVars, watchVars, upsert, tick, probe>>

NextTasks ==
    \/ SubmitSearch
    \/ \E r \in runs : CheckRecent(r)
    \/ \E r \in runs, http_error \in BOOLEAN, raw \in TaskRaw(1) :
          FetchAndStore(r, http_error, raw)
    \/ \E r \in runs : RecordSearch(r)
    \/ \E r \in runs : FinishSearch(r)

SpecTasks == InitTasks /\ [][NextTasks]_vars

\* C35: of two non-forced search tasks for one date and location at most one
\* fetches the location from the provider
C35_OneLiveFetch ==
    Cardinality({r \in runs : r.fetched}) <= 1

\* ------------------------------------------------- references between rows
\* the foreign keys of courts, availabilities and search_order_notifications,
\* which the database checks on every statement
ForeignKeys_unchecked(ls, cs, rows, ns) == TRUE
ForeignKeys(ls, cs, rows, ns) ==
    /\ \A c \in cs : c.location_id \in ls
    /\ \A a \in rows : \E c \in cs : c.id = a.court_id
    /\ \A n \in ns : /\ \E a \in rows : a.id = n.availability_id
                     /\ \E c \in cs : c.id = n.court_id

\* LocationService.delete_location: session.delete(location) deletes the
\* courts of the location, and each court its slots and notification records
delete_location(ls, cs, rows, ns, loc) ==
    LET gone == {c.id : c \in {x \in cs : x.location_id = loc}}
    IN [locations |-> ls \ {loc},
        courts |-> {c \in cs : c.id \notin gone},
        rows |-> {a \in rows : a.court_id \notin gone},
        notifs |-> {n \in ns : n.court_id \notin gone}]

\* location 1 after a legacy fetch, with one saved search; location 2 has no
\* court yet
InitIntegrity ==
    \E k1 \in {"named", "placeholder", "both"}, st \in StartTimes :
        LET t == CourtTable(k1, 1, st)
        IN /\ courts = t.courts
           /\ slots = t.rows
           /\ nextSlotId = 3
           /\ nextCourtId = 3
           /\ sess = [s \in Sessions |-> IdleSession]
           /\ locations = Locations
           /\ rlog = [raw |-> <<>>, stats |-> NoStats, allNew |-> FALSE,
                      n |-> 0, repeat |-> FALSE, unchanged |-> FALSE,
                      prevStats |-> NoStats, prevAllNew |-> FALSE]
           /\ mlog = NoMerge
           /\ TaskIdle
           /\ orders = {SearchOrder(1, 2, "all", "all", TRUE)}
           /\ notifs = {}
           /\ wlog = NoWatch
           /\ RaceIdle

\* DELETE /locations/<id>: the flush deletes slots and notification records
\* in an order the mapper sort decides (slots_first); a slot deleted before a
\* record that references it fails its foreign key and the delete raises
DeleteLocation(loc, slots_first) ==
    LET d == delete_location(locations, courts, slots, notifs, loc)
        early == [d EXCEPT !.notifs = notifs, !.courts = courts,
                           !.locations = locations]
        raised == \/ loc \notin locations
                  \/ slots_first /\ ~ ForeignKeys(early.locations, early.courts,
                                                  early.rows, early.notifs)
                  \/ ~ ForeignKeys(d.locations, d.courts, d.rows, d.notifs)
    IN /\ IF raised
          THEN UNCHANGED <<locations, courts, slots, notifs>>
          ELSE /\ locations' = d.locations
               /\ courts' = d.courts
               /\ slots' = d.rows
               /\ notifs' = d.notifs
       /\ probe' = [op |-> "delete_location", location |-> loc,
                    deleted |-> ~ raised,
                    before |-> [courts |-> courts, slots |-> slots,
                                notifs |-> notifs]]
       /\ UNCHANGED <<nextSlotId, nextCourtId, sess, obsVars, taskVars, orders,
                      wlog, upsert, runs, tick>>

\* refresh_all_data up to its second commit: the bulk delete of all slots,
\* which fails on a notification record that references one, and the delete
\* of the search cache
AdminDeleteAvailabilities ==
    /\ probe.op # "refresh_all_data"
    /\ IF ForeignKeys(locations, courts, {}, notifs)
       THEN /\ slots' = {}
            /\ cache' = {}
            /\ probe' = [op |-> "refresh_all_data",
                         before |-> [courts |-> courts, slots |-> slots,
                                     notifs |-> notifs]]
       ELSE /\ UNCHANGED <<slots, cache>>
            /\ probe' = [op |-> "refresh_all_data_failed"]
    /\ UNCHANGED <<locations, courts, notifs, nextSlotId, nextCourtId, sess,
                   obsVars, task, params, w, sessionFailed, creq, plog, olog,
                   orders, wlog, upsert, runs, tick>>

\* refresh_all_data, the loop over the locations: the courts of a location
\* are deleted, each with its slots and notification records, and the club
\* page of location 1 gives the courts anew
AdminRecreateCourts(listed) ==
    /\ probe.op = "refresh_all_data"
    /\ LET rows == {a \in slots : ~ \E c \in courts : c.id = a.court_id}
           f == RefreshCourts({}, nextCourtId, listed)
       IN /\ f.ncid <= MaxCourtId + 1
          /\ courts' = IF 1 \in locations THEN f.courts ELSE {}
          /\ nextCourtId' = IF 1 \in locations THEN f.ncid ELSE nextCourtId
          /\ slots' = rows
          /\ notifs' = {}
    /\ probe' = [op |-> "refresh_all_data_done", before |-> probe.before]
    /\ UNCHANGED <<locations, nextSlotId, sess, obsVars, taskVars, orders, wlog,
                   upsert, runs, tick>>

NextIntegrity ==
    \/ \E o \in orders, http_error \in BOOLEAN, raw \in WatchRaw :
          FetchAndSearchAvailability(o, http_error, raw)
    \/ \E listed \in SUBSET Resources : PadelMateAddLocationBySlug(listed)
    \/ \E loc \in Locations, slots_first \in BOOLEAN :
          DeleteLocation(loc, slots_first)
    \/ AdminDeleteAvailabilities
    \/ \E listed \in {{}, {1}} : AdminRecreateCourts(listed)

SpecIntegrity == InitIntegrity /\ [][NextIntegrity]_vars

\* C36: every slot references an existing court, every court an existing
\* location, and every notification record an existing slot and an existing
\* court
C36_ReferencesExist ==
    /\ \A a \in slots : \E c \in courts : c.id = a.court_id
    /\ \A c \in courts : c.location_id \in locations
    /\ \A n \in notifs : /\ \E a \in slots : a.id = n.availability_id
                         /\ \E c \in courts : c.id = n.court_id

\* delete_location removed a location whose court had a slot with a
\* notification record
C36_Witness ==
    /\ probe.op = "delete_location"
    /\ probe.deleted
    /\ \E n \in probe.before.notifs : \E a \in probe.before.slots :
          /\ a.id = n.availability_id
          /\ ~ \E c \in courts : c.id = a.court_id

====
